---- MODULE Spec2Model ----
(***************************************************************************)
(* A model of the RGBMatrixAnimations library: the renderer base class     *)
(* (palette, occupancy grid, position helpers) of src/src/RGBMatrixRenderer, *)
(* the particle engine of src/src/gravityparticles.cpp and the Game of     *)
(* Life of src/src/golife.cpp.                                             *)
(*                                                                         *)
(* Integers keep the width the C++ code gives them (int16_t, uint16_t,     *)
(* int32_t).  float arithmetic is modelled as exact real arithmetic        *)
(* followed by the truncation of the float-to-integer conversion.          *)
(***************************************************************************)
EXTENDS Integers, Sequences, FiniteSets, TLC

(***************************************************************************)
(* Bounds of the model.                                                    *)
(***************************************************************************)
\* most particles the model adds to the store
MaxP == 2
\* most runCycle calls in one behaviour of Spec
MaxCycles == 2
\* palette capacity including black at index 0.  The header sets 16400
\* (src/src/RGBMatrixRenderer.h:82); the model fills a smaller palette.
maxColours == 3
\* largest width and height the constructor is tried with
MaxCtorDim == 9
\* most iterations of a wrapping loop of newPosition
MaxWrapLoops == 100

(***************************************************************************)
(* Program constants.                                                      *)
(***************************************************************************)
\* velocity is divided by velDiv when applied to the position
velDiv == 256
\* attempts < maxAttempts keeps the random placement loop running
maxAttempts == 2001
\* the initial lowestScore of getColourId
initialLowestScore == 100
\* the store grows by this many slots
growBy == 20
\* the store starts with at most this many slots
initialStore == 100

\* SUBPIXEL_RES of the renderer
SUBPIXEL_RES == 100

(***************************************************************************)
(* Fixed-width integer conversions and C++ integer division.               *)
(***************************************************************************)
Abs(n) == IF n < 0 THEN -n ELSE n

ToInt16(n) == ((n + 32768) % 65536) - 32768

ToUint16(n) == n % 65536

ToInt8(n) == ((n + 128) % 256) - 128

ToUint8(n) == n % 256

\* C++ integer division truncates towards zero
CDiv(a, b) ==
    IF a >= 0
    THEN (IF b > 0 THEN a \div b ELSE -(a \div (-b)))
    ELSE (IF b > 0 THEN -((-a) \div b) ELSE (-a) \div (-b))

\* F(v), with v computed once
With(v, F(_)) == CHOOSE r \in {F(x) : x \in {v}} : TRUE

(***************************************************************************)
(* p/q <= r/s for naturals p, r and positive q, s, by Euclid's algorithm:  *)
(* no product is formed, so nothing leaves the 32-bit range.               *)
(***************************************************************************)
FracLeq(p, q, r, s) ==
    LET leq[f \in Nat \X Nat \X Nat \X Nat] ==
            IF f[1] \div f[2] # f[3] \div f[4]
            THEN f[1] \div f[2] < f[3] \div f[4]
            ELSE IF f[1] % f[2] = 0 THEN TRUE
            ELSE IF f[3] % f[4] = 0 THEN FALSE
            ELSE leq[<<f[4], f[3] % f[4], f[2], f[1] % f[2]>>]
    IN  leq[<<p, q, r, s>>]

(***************************************************************************)
(* State.                                                                  *)
(*   rstate          "args" before the renderer's constructor has run,     *)
(*                   "constructed" after it returned, "threw" after it     *)
(*                   threw invalid_argument                                *)
(*   gridWidth .. coloursDefined   the renderer's fields; palette holds    *)
(*                   the entries 1..coloursDefined (entry 0 is black and   *)
(*                   is never written again; entries above coloursDefined  *)
(*                   are never read)                                       *)
(*   particles .. bounce   the fields of GravityParticles; particles holds *)
(*                   the slots 0..numParticles-1 of the store as the       *)
(*                   sequence elements 1..numParticles                     *)
(*   cycles          runCycle calls so far (bounds the behaviours)         *)
(*   rngInclusive    the random source may return the upper end of the     *)
(*                   range it is asked for                                 *)
(*   ub              the program has executed undefined behaviour (an      *)
(*                   access outside img); the model stops there            *)
(*   call            the last operation called, its arguments and result   *)
(*   life            the fields of the GameOfLife object, NoLife where     *)
(*                   none is constructed; no operation of the renderer or  *)
(*                   of GravityParticles touches them                      *)
(***************************************************************************)
VARIABLES rstate, gridWidth, gridHeight, cubeMode, panelSize, img, palette,
          coloursDefined, particles, numParticles, maxParticles,
          spaceMultiplier, velCap, accelX, accelY, shake, bounce, cycles,
          rngInclusive, ub, call, life

rvars == <<rstate, gridWidth, gridHeight, cubeMode, panelSize>>
pixvars == <<img, palette, coloursDefined>>
cfgvars == <<spaceMultiplier, shake, bounce, life>>
accvars == <<velCap, accelX, accelY>>
storevars == <<particles, numParticles, maxParticles>>
envvars == <<rngInclusive, cycles>>
vars == <<rvars, pixvars, cfgvars, accvars, storevars, envvars, ub, call>>

NoCall == [op |-> "none"]

NoLife == [op |-> "none"]

(***************************************************************************)
(* RGB_colour and the palette.                                             *)
(***************************************************************************)
Black == <<0, 0, 0>>

\* the image after clearImage: every cell 0
ZeroImg(w, h) == [i \in 0..(w * h - 1) |-> 0]

\* the summed per-channel absolute difference of getColourId
Score(c, d) == Abs(c[1] - d[1]) + Abs(c[2] - d[2]) + Abs(c[3] - d[3])

\* the guard of the branch of getColourId's loop that tracks the closest
\* match, evaluated with n colours defined
TracksClosest(n) == n < maxColours - 1

\* a search that finds no entry
NoSearch(pal, colour, i, lowestScore, closestMatch) ==
    [id |-> 0, closestMatch |-> 0]

\* the loop of getColourId from index i on: the id found (0: none) and the
\* closest match so far
RECURSIVE SearchPalette(_, _, _, _, _)
SearchPalette(pal, colour, i, lowestScore, closestMatch) ==
    IF i > Len(pal)
    THEN [id |-> 0, closestMatch |-> closestMatch]
    ELSE IF pal[i] = colour
    THEN [id |-> i, closestMatch |-> i]
    ELSE IF TracksClosest(Len(pal)) /\ ToUint16(Score(pal[i], colour)) < lowestScore
    THEN SearchPalette(pal, colour, i + 1, ToUint16(Score(pal[i], colour)), i)
    ELSE SearchPalette(pal, colour, i + 1, lowestScore, closestMatch)

\* a palette that takes every colour
AlwaysRoom(n) == TRUE

\* the test for room in the palette, evaluated with n colours defined
HasRoom(n) == n < maxColours - 1

\* getColourId: the id returned and the palette it leaves
GetColourId(pal, colour) ==
    IF colour = Black
    THEN [id |-> 0, palette |-> pal]
    ELSE LET s == SearchPalette(pal, colour, 1, initialLowestScore, 0)
         IN  IF s.id # 0
             THEN [id |-> s.id, palette |-> pal]
             ELSE IF HasRoom(Len(pal))
             THEN [id |-> Len(pal) + 1, palette |-> Append(pal, colour)]
             ELSE [id |-> s.closestMatch, palette |-> pal]

\* getColour
GetColour(pal, id) == IF id >= 1 /\ id <= Len(pal) THEN pal[id] ELSE Black

(***************************************************************************)
(* newPosition: the int16_t newPos of the code, the loops run as written.  *)
(***************************************************************************)
RECURSIVE WrapUp(_, _)
WrapUp(newPos, dimension) ==
    IF newPos < 0 THEN WrapUp(ToInt16(newPos + dimension), dimension) ELSE newPos

RECURSIVE WrapDown(_, _)
WrapDown(newPos, dimension) ==
    IF newPos >= dimension THEN WrapDown(ToInt16(newPos - dimension), dimension)
    ELSE newPos

\* position, increment and dimension are uint16_t; the result is returned
\* as uint16_t
newPosition(position, increment, dimension, wrap) ==
    LET newPos == ToInt16(position + increment)
    IN  IF wrap
        THEN ToUint16(WrapDown(WrapUp(newPos, dimension), dimension))
        ELSE IF newPos < 0 THEN 0
        ELSE IF newPos >= dimension THEN ToUint16(ToInt16(dimension - 1))
        ELSE ToUint16(newPos)

(***************************************************************************)
(* MovingPixel and updatePosition.  A pixel is a record of x, y (uint16_t), *)
(* fineX, fineY (int16_t) and vx, vy (int8_t).                             *)
(***************************************************************************)
\* one axis of the fine position update: the sign of the step is the sign
\* of the velocity
FineStep(pos, fine, v, dimension, wrap) ==
    LET fineInc == ToUint16(Abs(fine + v))
        wholePix == ToInt16(fineInc \div SUBPIXEL_RES)
        partPix == ToInt16(fineInc - wholePix * SUBPIXEL_RES)
    IN  IF fineInc >= SUBPIXEL_RES
        THEN IF v < 0
             THEN [pos |-> newPosition(pos, ToUint16(-wholePix), dimension, wrap),
                   fine |-> ToInt16(-partPix)]
             ELSE [pos |-> newPosition(pos, ToUint16(wholePix), dimension, wrap),
                   fine |-> partPix]
        ELSE IF v < 0
        THEN [pos |-> pos, fine |-> ToInt16(-fineInc)]
        ELSE [pos |-> pos, fine |-> ToInt16(fineInc)]

\* newPixel before the cube translation
FlatMove(pixel, wrap) ==
    LET sx == FineStep(pixel.x, pixel.fineX, pixel.vx, gridWidth, wrap)
        sy == FineStep(pixel.y, pixel.fineY, pixel.vy, gridHeight, wrap)
    IN  [x |-> sx.pos, y |-> sy.pos, fineX |-> sx.fine, fineY |-> sy.fine,
         vx |-> pixel.vx, vy |-> pixel.vy]

\* the panel row or column (uint8_t) of a coordinate
PanelOf(coord) == ToUint8(coord \div panelSize)

\* a newY that mirrors newX across the grid width in all four cases
MirrorsAcrossWidth(n, panelRow, panelCol) == ToUint16(gridWidth - 1 - n.x)

\* the flat X wrap within a panel row: newY of the four cases
XWrapNewY(n, panelRow, panelCol) ==
    IF panelRow = 0
    THEN IF panelCol = 2 THEN ToUint16(gridHeight - 1 - n.x)
         ELSE ToUint16(gridWidth - 1 - n.x + panelSize)
    ELSE IF panelCol = 2 THEN ToUint16(panelSize - 1 - n.x)
         ELSE ToUint16(gridWidth - 1 - n.x)

\* the flat X wrap within a panel row: newX of the four cases
XWrapNewX(n, panelRow) ==
    IF panelRow = 0 THEN ToUint16(panelSize + n.y) ELSE n.y

\* the same panel row: only a wrap between panel columns 2 and 0 is
\* translated
SamePanelRow(n, pixel, panelRow, panelCol, panelColNew) ==
    IF (panelCol = 2 /\ panelColNew = 0) \/ (panelCol = 0 /\ panelColNew = 2)
    THEN [x |-> XWrapNewX(n, panelRow),
          y |-> XWrapNewY(n, panelRow, panelCol),
          fineX |-> n.fineY,
          fineY |-> ToInt16(-n.fineX),
          vx |-> pixel.vy,
          vy |-> ToInt8(-pixel.vx)]
    ELSE n

\* a change of panel row in the same panel column: the destination panel
\* and the operation (0 flip, 1 swap, any other value a shift along X)
AlwaysFlips(panelCol, panelRow, up) == [col |-> 0, row |-> 0, translate |-> 0]

RowChange(panelCol, panelRow, up) ==
    IF panelCol = 0
    THEN IF up THEN [col |-> 0, row |-> 0, translate |-> ToInt16(2 * panelSize)]
         ELSE IF panelRow = 0 THEN [col |-> 0, row |-> 1, translate |-> 0]
         ELSE [col |-> 0, row |-> 0, translate |-> 0]
    ELSE IF panelCol = 1
    THEN IF panelRow = 0
         THEN IF up THEN [col |-> 2, row |-> 1, translate |-> 1]
              ELSE [col |-> 0, row |-> 1, translate |-> 1]
         ELSE IF up THEN [col |-> 2, row |-> 0, translate |-> 1]
              ELSE [col |-> 0, row |-> 0, translate |-> 1]
    ELSE IF up
         THEN IF panelRow = 0 THEN [col |-> 2, row |-> 1, translate |-> 0]
              ELSE [col |-> 2, row |-> 0, translate |-> 0]
         ELSE [col |-> 0, row |-> 0, translate |-> ToInt16(-(2 * panelSize))]

\* the operation applied to newPixel
SamePanelCol(n, pixel, panelRowNew, panelColNew, op) ==
    IF op.translate = 0
    THEN [x |-> ToUint16(panelSize - 1 - (n.x - panelColNew * panelSize)
                         + op.col * panelSize),
          y |-> ToUint16(panelSize - 1 - (n.y - panelRowNew * panelSize)
                         + op.row * panelSize),
          fineX |-> ToInt16(-n.fineX),
          fineY |-> ToInt16(-n.fineY),
          vx |-> ToInt8(-pixel.vx),
          vy |-> ToInt8(-pixel.vy)]
    ELSE IF op.translate = 1
    THEN [x |-> ToUint16(panelSize - 1 - (n.y - panelRowNew * panelSize)
                         + op.col * panelSize),
          y |-> ToUint16((n.x - panelColNew * panelSize) + op.row * panelSize),
          fineX |-> ToInt16(-n.fineY),
          fineY |-> n.fineX,
          vx |-> ToInt8(-pixel.vy),
          vy |-> pixel.vx]
    ELSE [n EXCEPT !.x = ToUint16(n.x + op.translate)]

\* a cube translation that treats a diagonal panel change as a change of
\* panel row
DiagonalAsRowChange(pixel, n, wrap) ==
    LET panelRow == PanelOf(pixel.y)
        panelCol == PanelOf(pixel.x)
        panelRowNew == PanelOf(n.y)
        panelColNew == PanelOf(n.x)
    IN  IF ~wrap THEN pixel
        ELSE IF panelRow = panelRowNew
        THEN SamePanelRow(n, pixel, panelRow, panelCol, panelColNew)
        ELSE SamePanelCol(n, pixel, panelRowNew, panelColNew,
                          RowChange(panelCol, panelRow, pixel.vy > 0))

\* the cube translation of newPixel n
CubeMove(pixel, n, wrap) ==
    LET panelRow == PanelOf(pixel.y)
        panelCol == PanelOf(pixel.x)
        panelRowNew == PanelOf(n.y)
        panelColNew == PanelOf(n.x)
    IN  IF ~wrap THEN pixel
        ELSE IF panelRow = panelRowNew
        THEN SamePanelRow(n, pixel, panelRow, panelCol, panelColNew)
        ELSE IF panelCol = panelColNew
        THEN SamePanelCol(n, pixel, panelRowNew, panelColNew,
                          RowChange(panelCol, panelRow, pixel.vy > 0))
        ELSE n

\* updatePosition(pixel, wrap)
UpdatePosition(pixel, wrap) ==
    With(FlatMove(pixel, wrap),
         LAMBDA n : IF cubeMode THEN CubeMove(pixel, n, wrap) ELSE n)

(***************************************************************************)
(* The renderer's constructor.                                             *)
(***************************************************************************)
\* the aspect test of cube mode, in the int arithmetic of the code
CubeAspectOk(width, height) == width = CDiv(height * 3, 2)

\* panelSize is a uint8_t
CubePanelSize(height) == ToUint8(CDiv(height, 2))

(***************************************************************************)
(* GravityParticles: construction.                                         *)
(***************************************************************************)
\* spaceMultiplier as the constructor chooses it (w or h is not 0)
SpaceMultiplierFor(w, h) ==
    LET maxDim == IF h > w THEN h ELSE w
        multiplier == CDiv(5900, maxDim)
    IN  IF multiplier > 25 THEN 256 ELSE 10 * multiplier

\* the initial size of the store
InitialMaxParticles(w, h) ==
    LET max == ToUint16(w * h)
    IN  IF max < initialStore THEN max ELSE initialStore

\* velCap as the constructor sets it
InitialVelCap(sm) == ToUint16(sm * 64)

\* maximum coordinates in particle space (uint16_t fields)
maxX == ToUint16(gridWidth * spaceMultiplier - 1)
maxY == ToUint16(gridHeight * spaceMultiplier - 1)

\* the overshoot buffer of runCycle
over == 10 * spaceMultiplier

\* loss = 1 + (255 - bounce) * 5 / 255 = LossNum / 255
LossNum(b) == 1530 - 5 * b

(***************************************************************************)
(* Undefined behaviour is resolved by the build.  "wrap": a signed         *)
(* overflow wraps and an out-of-range float-to-integer conversion keeps    *)
(* the low bits; "wide": the overflowing sum is computed exactly and the   *)
(* conversion saturates.  Every operation with such a step takes either.   *)
(***************************************************************************)
UBModes == {"wrap", "wide"}

\* v /= -loss for an int16_t v: the float quotient, converted to int16_t
DivByMinusLoss(v, ubm) ==
    LET q == CDiv(-(v * 255), LossNum(bounce))
    IN  IF q > 32767 THEN (IF ubm = "wrap" THEN ToInt16(q) ELSE 32767) ELSE q

\* the largest t in lo..hi with t*t/a <= b/c (lo satisfies it)
LargestSq(lo, hi, a, b, c) ==
    LET search[range \in Nat \X Nat] ==
            IF range[1] >= range[2] THEN range[1]
            ELSE LET mid == (range[1] + range[2] + 1) \div 2
                 IN  IF FracLeq(mid * mid, a, b, c)
                     THEN search[<<mid, range[2]>>]
                     ELSE search[<<range[1], mid - 1>>]
    IN  search[<<lo, hi>>]

\* (int16_t)(velCap * (float)c / sqrt((float)v2)) for v2 = vx*vx + vy*vy > 0
CapComponent(c, v2) ==
    IF c = 0 THEN 0
    ELSE LET t == LargestSq(0, Abs(c), velCap * Abs(c), velCap * Abs(c), v2)
         IN  IF c < 0 THEN -t ELSE t

\* the same with vx = vy = -32768, whose v2 = 2^31: -floor(velCap / sqrt(2))
CapComponentWide ==
    -LargestSq(0, velCap, velCap, velCap, 2)

\* whether the squared magnitude exceeds the cap: v2 > velCap * velCap
ExceedsCap(v2) == v2 > velCap * velCap

\* the velocity pass of runCycle on one particle; jx and jy are the two
\* values the random source returned
VelocityPass(p, jx, jy, ubm) ==
    LET axa == ToInt16(accelX + jx)
        aya == ToInt16(accelY + jy)
        vx == ToInt16(p.vx + axa)
        vy == ToInt16(p.vy + aya)
        overflows == vx = -32768 /\ vy = -32768
    IN  IF overflows
        THEN IF ubm = "wrap"
             THEN [p EXCEPT !.vx = vx, !.vy = vy]
             ELSE [p EXCEPT !.vx = CapComponentWide, !.vy = CapComponentWide]
        ELSE LET v2 == vx * vx + vy * vy
             IN  IF ExceedsCap(v2)
                 THEN [p EXCEPT !.vx = CapComponent(vx, v2),
                                !.vy = CapComponent(vy, v2)]
                 ELSE [p EXCEPT !.vx = vx, !.vy = vy]

\* the pixel number of a position in particle space (uint16_t)
CellIndex(x, y) ==
    ToUint16((y \div spaceMultiplier) * gridWidth + (x \div spaceMultiplier))

\* getPixelValue(index); an index outside img is flagged by OutOfImg
PixelAt(im, idx) == IF idx \in DOMAIN im THEN im[idx] ELSE 0

OutOfImg(im, idx) == idx \notin DOMAIN im

\* the velocity a boundary leaves on its axis
WallVelocity(v, ubm) == IF bounce > 0 THEN DivByMinusLoss(v, ubm) ELSE 0

\* an axis that moves without a boundary check
FreeAxis(pos, v, max, ubm) ==
    [pos |-> ToUint16(pos + CDiv(v, velDiv)), v |-> v]

\* one axis of the boundary check: the coordinate (the overshoot buffer
\* removed again) and the velocity left
ClampAxis(pos, v, max, ubm) ==
    LET new == ToUint16(pos + over + CDiv(v, velDiv))
    IN  IF new > max + over
        THEN [pos |-> ToUint16(ToUint16(max + over) - over), v |-> WallVelocity(v, ubm)]
        ELSE IF new < over
        THEN [pos |-> ToUint16(ToUint16(over) - over), v |-> WallVelocity(v, ubm)]
        ELSE [pos |-> ToUint16(new - over), v |-> v]

\* a collision branch that takes the occupied cell
Overrun(p, cx, cy, oldidx, newidx, im, ubm) ==
    [x |-> cx.pos, y |-> cy.pos, vx |-> cx.v, vy |-> cy.v, idx |-> newidx,
     reads |-> {}]

\* delta == 1: the branch taken for "1 pixel left or right"
IsHorizontalStep(delta) == delta = 1

\* delta == gridWidth: the branch taken for "1 pixel up or down"
IsVerticalStep(delta) == delta = gridWidth

\* the collision branch of runCycle: the target cell newidx is occupied and
\* is not the particle's own.  cx, cy are the clamped axes.  reads are the
\* further pixels the branch looks at.
Resolve(p, cx, cy, oldidx, newidx, im, ubm) ==
    LET delta == ToUint16(Abs(newidx - oldidx))
        xAlone == CellIndex(cx.pos, p.y)
        yAlone == CellIndex(p.x, cy.pos)
        bx == DivByMinusLoss(cx.v, ubm)
        by == DivByMinusLoss(cy.v, ubm)
        stay == [x |-> p.x, y |-> p.y, vx |-> bx, vy |-> by, idx |-> oldidx,
                 reads |-> {xAlone, yAlone}]
    IN  IF IsHorizontalStep(delta)
        THEN [x |-> p.x, y |-> cy.pos, vx |-> bx, vy |-> cy.v, idx |-> oldidx,
              reads |-> {}]
        ELSE IF IsVerticalStep(delta)
        THEN [x |-> cx.pos, y |-> p.y, vx |-> cx.v, vy |-> by, idx |-> oldidx,
              reads |-> {}]
        ELSE IF Abs(cx.v) - Abs(cy.v) >= 0
        THEN \* X axis is faster
             IF PixelAt(im, xAlone) = 0
             THEN [x |-> cx.pos, y |-> p.y, vx |-> cx.v, vy |-> by,
                   idx |-> xAlone, reads |-> {xAlone}]
             ELSE IF PixelAt(im, yAlone) = 0
             THEN [x |-> p.x, y |-> cy.pos, vx |-> bx, vy |-> cy.v,
                   idx |-> yAlone, reads |-> {xAlone, yAlone}]
             ELSE stay
        ELSE \* Y axis is faster; the code bounces vy where it cancels X
             IF PixelAt(im, yAlone) = 0
             THEN [x |-> p.x, y |-> cy.pos, vx |-> cx.v, vy |-> by,
                   idx |-> yAlone, reads |-> {yAlone}]
             ELSE IF PixelAt(im, xAlone) = 0
             THEN [x |-> cx.pos, y |-> p.y, vx |-> cx.v, vy |-> by,
                   idx |-> xAlone, reads |-> {xAlone, yAlone}]
             ELSE stay

\* the position pass of runCycle on one particle against the image im:
\* the particle, the image and whether a pixel outside img was touched
StepParticle(q, im, ubm) ==
    With(q, LAMBDA p :
    LET cx == ClampAxis(p.x, p.vx, maxX, ubm)
        cy == ClampAxis(p.y, p.vy, maxY, ubm)
        oldidx == CellIndex(p.x, p.y)
        newidx == CellIndex(cx.pos, cy.pos)
        blocked == oldidx # newidx /\ PixelAt(im, newidx) # 0
        r == IF blocked
             THEN Resolve(p, cx, cy, oldidx, newidx, im, ubm)
             ELSE [x |-> cx.pos, y |-> cy.pos, vx |-> cx.v, vy |-> cy.v,
                   idx |-> newidx, reads |-> {}]
        touched == r.reads \cup (IF oldidx # newidx THEN {newidx} ELSE {})
                          \cup (IF oldidx # r.idx THEN {oldidx, r.idx} ELSE {})
        oob == \E c \in touched : OutOfImg(im, c)
        colcode == PixelAt(im, oldidx)
        moved == IF oldidx # r.idx /\ ~oob
                 THEN [[im EXCEPT ![oldidx] = 0] EXCEPT ![r.idx] = colcode]
                 ELSE im
    IN  [p |-> [x |-> r.x, y |-> r.y, vx |-> r.vx, vy |-> r.vy],
         img |-> moved, oob |-> oob])

\* a position pass in descending index
RECURSIVE DescendingPass(_, _, _, _, _)
DescendingPass(ps, im, i, ubm, oob) ==
    IF i > Len(ps) THEN [particles |-> ps, img |-> im, oob |-> oob]
    ELSE With(StepParticle(ps[Len(ps) + 1 - i], im, ubm),
              LAMBDA s : DescendingPass([ps EXCEPT ![Len(ps) + 1 - i] = s.p],
                                        s.img, i + 1, ubm, oob \/ s.oob))

\* the position pass from particle i on, in ascending index
RECURSIVE PositionPass(_, _, _, _, _)
PositionPass(ps, im, i, ubm, oob) ==
    IF i > Len(ps) THEN [particles |-> ps, img |-> im, oob |-> oob]
    ELSE With(StepParticle(ps[i], im, ubm),
              LAMBDA s : PositionPass([ps EXCEPT ![i] = s.p], s.img, i + 1,
                                      ubm, oob \/ s.oob))

\* runCycle: jit[i] are the two values the random source returns for
\* particle i
RunCycleResult(ps, im, jit, ubm) ==
    LET vs == [i \in 1..Len(ps) |->
                 VelocityPass(ps[i], jit[i][1], jit[i][2], ubm)]
    IN  PositionPass(vs, im, 1, ubm, FALSE)

(***************************************************************************)
(* The random source.  The renderers of src/examples return                *)
(* a + rand() % (b - a), a value of a..b-1; with rngInclusive the source   *)
(* may also return b.                                                      *)
(***************************************************************************)
AlwaysInclusive(a, b) == a..b

RandomInt16(a, b) == IF rngInclusive THEN a..b ELSE a..(b - 1)

\* the sub-pixel offsets the model tries, among those random_int16(0,
\* spaceMultiplier) returns
OffsetDraws ==
    {d \in RandomInt16(0, spaceMultiplier) :
        d \in {0, spaceMultiplier - 1, spaceMultiplier}}

\* the jitter the model tries, among the values
\* random_int16(-shakeFactor, shakeFactor + 1) returns
JitterDraws ==
    LET shakeFactor == ToInt16(shake \div 2)
    IN  {d \in RandomInt16(-shakeFactor, shakeFactor + 1) :
            d \in {-shakeFactor, 0, shakeFactor, shakeFactor + 1}}

(***************************************************************************)
(* The particle store.  A store value st holds particles, numParticles,    *)
(* maxParticles, img, palette and oob (an access outside img or outside    *)
(* the store's array has happened).                                        *)
(***************************************************************************)
Store ==
    [particles |-> particles, numParticles |-> numParticles,
     maxParticles |-> maxParticles, img |-> img, palette |-> palette,
     oob |-> FALSE]

\* a count that an addition leaves as it is
CountUnchanged(n) == n

\* numParticles++ on a uint16_t
CountAfterAdd(n) == ToUint16(n + 1)

\* a store that is never expanded
SameCapacity(i, capacity) == capacity

\* maxParticles after the check for particles array overflow; maxParticles
\* is a uint16_t
GrownCapacity(i, capacity) ==
    IF i = capacity THEN ToUint16(capacity + growBy) ELSE capacity

\* addParticle(x, y, colour, vx, vy); dx and dy are the two values the
\* random source returned
AddAt(st, x, y, colour, vx, vy, dx, dy) ==
    LET i == st.numParticles
        px == ToUint16(x * spaceMultiplier + dx)
        py == ToUint16(y * spaceMultiplier + dy)
        idx == CellIndex(px, py)
        g == GetColourId(st.palette, colour)
    IN  [particles |-> Append(st.particles, [x |-> px, y |-> py, vx |-> vx, vy |-> vy]),
         numParticles |-> CountAfterAdd(i),
         maxParticles |-> GrownCapacity(i, st.maxParticles),
         img |-> IF idx \in DOMAIN st.img
                 THEN [st.img EXCEPT ![idx] = g.id] ELSE st.img,
         palette |-> g.palette,
         oob |-> st.oob \/ OutOfImg(st.img, idx) \/ i # Len(st.particles)]

\* imgToParticles from pixel k on (k = y * gridWidth + x, y outer, x inner);
\* offs[n] are the values the random source returns for the n-th particle
\* added, added counts the particles added so far
RECURSIVE ImgToParticlesFrom(_, _, _, _)
ImgToParticlesFrom(st, k, offs, added) ==
    IF k >= gridWidth * gridHeight THEN [st |-> st, added |-> added]
    ELSE LET colcode == ToUint8(st.img[k])
         IN  IF colcode > 0 /\ added < Len(offs)
             THEN ImgToParticlesFrom(
                      AddAt(st, k % gridWidth, k \div gridWidth,
                            GetColour(st.palette, colcode), 0, 0,
                            offs[added + 1][1], offs[added + 1][2]),
                      k + 1, offs, added + 1)
             ELSE IF colcode > 0
             THEN [st |-> st, added |-> added + 1]
             ELSE ImgToParticlesFrom(st, k + 1, offs, added)

\* a deletion that drops the last slot and moves nothing
RemoveLast(ps, index) == SubSeq(ps, 1, Len(ps) - 1)

\* the slots deleteParticle(index) leaves, for an index below numParticles
RemoveAt(ps, index) ==
    [i \in 1..(Len(ps) - 1) |-> IF i <= index THEN ps[i] ELSE ps[i + 1]]

\* getParticle(index): the position in pixel coordinates
GetParticle(ps, index) ==
    [x |-> ps[index + 1].x \div spaceMultiplier,
     y |-> ps[index + 1].y \div spaceMultiplier,
     vx |-> ps[index + 1].vx, vy |-> ps[index + 1].vy]

\* floor(sqrt(n)), the conversion of sqrt(n) to uint16_t
RECURSIVE IsqrtFrom(_, _, _)
IsqrtFrom(n, lo, hi) ==
    IF lo >= hi THEN lo
    ELSE LET mid == (lo + hi + 1) \div 2
         IN  IF mid * mid <= n THEN IsqrtFrom(n, mid, hi)
             ELSE IsqrtFrom(n, lo, mid - 1)

Isqrt(n) == IsqrtFrom(n, 0, 46340)

\* maxVel of setAcceleration(x, y, z):
\* sqrt(xyAbs*xyAbs + z*z) * spaceMultiplier / 32 converted to uint16_t
MaxVelFor(x, y, z) ==
    LET xyAbs == Isqrt(x * x + y * y)
        n == xyAbs * xyAbs + z * z
    IN  IF n = 0 THEN 0
        ELSE LargestSq(0, 46340, n, spaceMultiplier * spaceMultiplier, 1024)

\* a placement that adds whatever the loop found
AddsAlways(im, idx) == TRUE

\* addParticle(colour, vx, vy) adds the particle when the cell the loop
\* ended on is free
AddsAfterLoop(im, idx) == PixelAt(im, idx) = 0

(***************************************************************************)
(* The inputs the model tries.                                             *)
(***************************************************************************)
Red == <<255, 0, 0>>
Green == <<0, 200, 0>>

\* grid sizes, bounce and shake the engine is constructed with
Configs ==
    {[w |-> 1, h |-> 2, bounce |-> 0, shake |-> 0],
     [w |-> 2, h |-> 1, bounce |-> 255, shake |-> 0]}

\* the engine the acceleration setters are tried on
AccelConfig == [w |-> 1, h |-> 2, bounce |-> 10, shake |-> 2]

\* the engine of the falling particle
FallConfig == [w |-> 1, h |-> 2, bounce |-> 0, shake |-> 0]

\* initial velocities of added particles
VelPairs == {<<0, 0>>, <<11585, 11585>>}

\* initial velocities tried against the velocity cap
CapVels == {<<0, -1>>, <<16384, 300>>, <<-32768, -32768>>}

\* initial velocities of the falling particle
FallVels == {<<0, -1>>, <<0, -500>>}

\* initial velocity of the particles addParticle(colour) places
RandomAddVels == {<<0, 0>>}

ParticleColours == {Red}

\* setAcceleration(x, y)
AccelPairs == {<<0, -5>>, <<0, -32768>>}

\* setAcceleration(x, y, z)
AccelTriples == {<<0, -5, 0>>, <<0, 0, -2000>>}

\* colours passed to getColourId and setPixelColour
PaletteColours == {Black, Red, Green, <<250, 0, 0>>, <<0, 0, 255>>}

\* the grid the palette is exercised on
PaletteConfig == [w |-> 1, h |-> 2, bounce |-> 0, shake |-> 0]

\* the grids newPositionX and newPositionY are called on
PosConfigs ==
    {[w |-> 400, h |-> 1, bounce |-> 0, shake |-> 0],
     [w |-> 3, h |-> 335, bounce |-> 0, shake |-> 0]}

\* the positions tried on an axis of length dimension
Positions(dimension) ==
    {p \in {0, 1, 2, dimension \div 2, dimension - 2, dimension - 1} :
        0 <= p /\ p < dimension}

\* the signed increments passed through the uint16_t parameter
Increments == {-32768, -13, -1, 0, 1, 13, 32767}

\* those of them that keep the wrapping loops within MaxWrapLoops iterations
IncrementsFor(dimension) ==
    {i \in Increments : (Abs(i) + dimension) \div dimension <= MaxWrapLoops}

\* the engines whose walls are tried: no bounce, full bounce, default bounce
WallConfigs ==
    {[w |-> 1, h |-> 2, bounce |-> 0, shake |-> 0],
     [w |-> 2, h |-> 1, bounce |-> 255, shake |-> 0],
     [w |-> 1, h |-> 2, bounce |-> 10, shake |-> 0]}

\* initial velocities of the particle sent against the walls
WallVels == {<<300, -300>>, <<-296, 0>>, <<0, 16000>>, <<-32768, 0>>}

\* setAcceleration(x, y, z) before the particle is sent against the walls:
\* no acceleration in the plane, velCap = 32768
WallTriples == {<<0, 0, -4096>>}

\* the engines collisions are tried on
CollideConfigs ==
    {[w |-> 2, h |-> 2, bounce |-> 10, shake |-> 0],
     [w |-> 1, h |-> 2, bounce |-> 10, shake |-> 0]}

\* initial velocities of the particle sent against occupied cells: one
\* pixel per cycle along X, along Y, and along both (down-right, up-left
\* and down-left) with either axis faster
CollideVels ==
    {<<300, 0>>, <<0, 300>>, <<400, 300>>, <<300, 400>>, <<-400, -300>>,
     <<-300, 400>>}

\* the renderers updatePosition is called on: a flat grid, and cubes of
\* panel size 1 and 2
PixelConfigs ==
    {[w |-> 3, h |-> 2, cube |-> FALSE],
     [w |-> 3, h |-> 2, cube |-> TRUE],
     [w |-> 6, h |-> 4, cube |-> TRUE]}

\* the sub-pixel fractions and the velocities of the pixels passed to
\* updatePosition
PixelFines == {-99, -50, 0, 50, 99}

PixelVels == {-128, -100, -20, 0, 20, 100, 127}

\* the engines whose jitter is observed: no shake, and a shake of 5
JitterConfigs ==
    {[w |-> 1, h |-> 2, bounce |-> 0, shake |-> 0],
     [w |-> 1, h |-> 2, bounce |-> 0, shake |-> 5]}

\* the engine imgToParticles is tried on
ImportConfig == [w |-> 2, h |-> 1, bounce |-> 0, shake |-> 0]

\* a palette of 257 colours, as getColourId leaves it after it has been
\* called with 257 distinct colours (the program's palette holds 16399)
ManyColours == [i \in 1..257 |-> <<i % 256, 1 + (i \div 256), 0>>]

\* the colour indices setPixelColour has left in the cells
ImportedIds == {0, 1, 2, 256, 257}

\* the engine two particles queue up on, their initial velocities and the
\* acceleration set
QueueConfig == [w |-> 3, h |-> 1, bounce |-> 10, shake |-> 0]

QueueVels == {<<240, 0>>, <<300, 0>>}

QueuePairs == {<<40, 0>>}

\* the engine whose grid is painted and populated, and the initial
\* velocities of its particles
GridConfig == [w |-> 2, h |-> 2, bounce |-> 10, shake |-> 0]

GridVels == {<<300, 400>>, <<-400, -300>>}

\* the engines whose particle space is measured: the largest grid with
\* spaceMultiplier 256, the largest with 20, the smallest and the largest
\* with 10
SpaceConfigs ==
    {[w |-> 226, h |-> 1, bounce |-> 10, shake |-> 0],
     [w |-> 2950, h |-> 1, bounce |-> 10, shake |-> 0],
     [w |-> 2951, h |-> 1, bounce |-> 10, shake |-> 0],
     [w |-> 1, h |-> 5900, bounce |-> 10, shake |-> 0]}

\* initial velocities of the particles at the edges of the particle space
SpaceVels == {<<-32768, -32768>>, <<-32767, 0>>, <<32767, 32767>>, <<0, -17000>>}

\* setAcceleration(x, y, z) with the largest z
SpaceTriples == {<<0, 0, -32768>>}

\* setAcceleration(x, y) and setAcceleration(x, y, z) between the store
\* operations
CountPairs == {<<0, -5>>}

CountTriples == {<<0, -5, 0>>}

\* setAcceleration(x, y) for the falling particle
FallAccels == {<<0, -5>>, <<0, -300>>, <<0, -32768>>}

\* the attempt at which the placement loop of addParticle(colour) ends
AttemptCounts == {1, 2, maxAttempts}

(***************************************************************************)
(* The operations of GravityParticles.  Each leaves the program in the     *)
(* state ub once an access has left img or the store's array.              *)
(***************************************************************************)
Running == rstate = "constructed" /\ ~ub

\* the store st replaces the current one
Install(st) ==
    IF st.oob
    THEN /\ ub' = TRUE
         /\ UNCHANGED <<pixvars, storevars>>
    ELSE /\ ub' = FALSE
         /\ particles' = st.particles
         /\ numParticles' = st.numParticles
         /\ maxParticles' = st.maxParticles
         /\ img' = st.img
         /\ palette' = st.palette
         /\ coloursDefined' = Len(st.palette)

\* addParticle(x, y, colour, vx, vy) with a colour of colours and a
\* velocity of vels, while the store holds fewer than most particles
AddParticleOfIn(colours, vels, most) ==
    /\ Running
    /\ numParticles < most \/ numParticles > maxParticles
    /\ \E x \in 0..(gridWidth - 1), y \in 0..(gridHeight - 1),
          colour \in colours, v \in vels,
          dx \in OffsetDraws, dy \in OffsetDraws :
          /\ Install(AddAt(Store, x, y, colour, v[1], v[2], dx, dy))
          /\ call' = [op |-> "addParticleAt", x |-> x, y |-> y]
    /\ UNCHANGED <<rvars, cfgvars, accvars, envvars>>

AddParticleAtIn(vels, most) == AddParticleOfIn(ParticleColours, vels, most)

AddParticleAt == AddParticleAtIn(VelPairs, MaxP)

\* addParticle(colour, vx, vy), while the store holds fewer than most
\* particles: the loop ends at attempt n with the cell (x, y); the n - 1
\* attempts before it drew occupied cells
AddParticleRandomIn(most) ==
    /\ Running
    /\ \E n \in AttemptCounts, x \in RandomInt16(0, gridWidth),
          y \in RandomInt16(0, gridHeight), colour \in ParticleColours,
          v \in RandomAddVels, dx \in OffsetDraws, dy \in OffsetDraws :
          LET idx == ToUint16(y * gridWidth + x)
              free == PixelAt(img, idx) = 0
          IN  /\ n > 1 => \E c \in DOMAIN img : img[c] # 0
              /\ n < maxAttempts => free
              /\ free => numParticles < most \/ numParticles > maxParticles
              /\ IF OutOfImg(img, idx)
                 THEN Install([Store EXCEPT !.oob = TRUE])
                 ELSE IF AddsAfterLoop(img, idx)
                 THEN Install(AddAt(Store, x, y, colour, v[1], v[2], dx, dy))
                 ELSE Install(Store)
              /\ call' = [op |-> "addParticle", attempts |-> n,
                          found |-> free]
    /\ UNCHANGED <<rvars, cfgvars, accvars, envvars>>

\* deleteParticle(index).  An index at or above numParticles reads a slot
\* the store does not define: the pixel it clears is any pixel.
DeleteParticle ==
    /\ Running
    /\ \E index \in 0..MaxP :
          /\ IF numParticles # Len(particles)
             THEN Install([Store EXCEPT !.oob = TRUE])
             ELSE IF index < numParticles
             THEN LET idx == CellIndex(particles[index + 1].x,
                                       particles[index + 1].y)
                  IN  Install([Store EXCEPT
                          !.particles = RemoveAt(particles, index),
                          !.numParticles = ToUint16(numParticles - 1),
                          !.img = IF idx \in DOMAIN img
                                  THEN [img EXCEPT ![idx] = 0] ELSE img,
                          !.oob = OutOfImg(img, idx)])
             ELSE \E c \in DOMAIN img :
                     Install([Store EXCEPT
                         !.particles = SubSeq(particles, 1, Len(particles) - 1),
                         !.numParticles = ToUint16(numParticles - 1),
                         !.img = [img EXCEPT ![c] = 0]])
          /\ call' = [op |-> "deleteParticle", index |-> index]
    /\ UNCHANGED <<rvars, cfgvars, accvars, envvars>>

\* a clearParticles that also clears the image
ClearParticlesAndImage ==
    /\ Running
    /\ Install([Store EXCEPT !.particles = <<>>, !.numParticles = 0,
                              !.img = ZeroImg(gridWidth, gridHeight)])
    /\ call' = [op |-> "clearParticles"]
    /\ UNCHANGED <<rvars, cfgvars, accvars, envvars>>

ClearParticles ==
    /\ Running
    /\ Install([Store EXCEPT !.particles = <<>>, !.numParticles = 0])
    /\ call' = [op |-> "clearParticles"]
    /\ UNCHANGED <<rvars, cfgvars, accvars, envvars>>

\* imgToParticles, while it leaves at most MaxP particles
ImgToParticles ==
    /\ Running
    /\ numParticles = Len(particles)
    /\ \E offs \in [1..(MaxP - Len(particles)) -> OffsetDraws \X OffsetDraws] :
          LET r == ImgToParticlesFrom(Store, 0, offs, 0)
          IN  /\ r.added = Len(offs)
              /\ Install(r.st)
    /\ call' = [op |-> "imgToParticles"]
    /\ UNCHANGED <<rvars, cfgvars, accvars, envvars>>

\* getParticle(index) for an index below the count
GetParticleCall ==
    /\ Running
    /\ numParticles = Len(particles)
    /\ \E index \in 0..(numParticles - 1) :
          call' = [op |-> "getParticle", index |-> index,
                   result |-> GetParticle(particles, index)]
    /\ UNCHANGED <<rvars, pixvars, cfgvars, accvars, storevars, envvars, ub>>

\* setAcceleration(x, y) with an acceleration of accels
SetAccelerationIn(accels) ==
    /\ Running
    /\ \E a \in accels :
          /\ accelX' = a[1]
          /\ accelY' = a[2]
    /\ call' = [op |-> "setAcceleration"]
    /\ UNCHANGED <<rvars, pixvars, cfgvars, velCap, storevars, envvars, ub>>

SetAcceleration2 == SetAccelerationIn(AccelPairs)

\* setAcceleration(x, y, z) with an acceleration of accels
SetAcceleration3In(accels) ==
    /\ Running
    /\ \E a \in accels :
          LET maxVel == MaxVelFor(a[1], a[2], a[3])
              minVelCap == spaceMultiplier \div 4
          IN  /\ accelX' = a[1]
              /\ accelY' = a[2]
              /\ velCap' = IF maxVel > minVelCap THEN maxVel ELSE minVelCap
    /\ call' = [op |-> "setAcceleration"]
    /\ UNCHANGED <<rvars, pixvars, cfgvars, storevars, envvars, ub>>

SetAcceleration3 == SetAcceleration3In(AccelTriples)

\* runCycle, without the bound on the number of cycles
RunCycleStep ==
    /\ Running
    /\ IF numParticles # Len(particles)
       THEN Install([Store EXCEPT !.oob = TRUE])
       ELSE \E jit \in [1..Len(particles) -> JitterDraws \X JitterDraws],
               ubm \in UBModes :
               \E r \in {RunCycleResult(particles, img, jit, ubm)} :
                   Install([Store EXCEPT !.particles = r.particles,
                                         !.img = r.img, !.oob = r.oob])
    /\ call' = [op |-> "runCycle"]
    /\ UNCHANGED <<rvars, cfgvars, accvars, rngInclusive>>

RunCycle ==
    /\ cycles < MaxCycles
    /\ RunCycleStep
    /\ cycles' = cycles + 1

(***************************************************************************)
(* The engine on a flat grid, after construction.                          *)
(***************************************************************************)
EngineInit(c) ==
    /\ rstate = "constructed"
    /\ gridWidth = c.w
    /\ gridHeight = c.h
    /\ cubeMode = FALSE
    /\ panelSize = 0
    /\ img = ZeroImg(c.w, c.h)
    /\ palette = <<>>
    /\ coloursDefined = 0
    /\ particles = <<>>
    /\ numParticles = 0
    /\ maxParticles = InitialMaxParticles(c.w, c.h)
    /\ spaceMultiplier = SpaceMultiplierFor(c.w, c.h)
    /\ velCap = InitialVelCap(SpaceMultiplierFor(c.w, c.h))
    /\ accelX = 0
    /\ accelY = 0
    /\ shake = c.shake
    /\ bounce = c.bounce
    /\ cycles = 0
    /\ ub = FALSE
    /\ call = NoCall
    /\ life = NoLife

AddParticleRandom == AddParticleRandomIn(MaxP)

Init ==
    /\ \E c \in Configs : EngineInit(c)
    /\ rngInclusive = FALSE

Next ==
    \/ AddParticleAt
    \/ AddParticleRandom
    \/ DeleteParticle
    \/ ClearParticles
    \/ ImgToParticles
    \/ RunCycle

Spec == Init /\ [][Next]_vars

(***************************************************************************)
(* Properties of the store operations, under Spec.                         *)
(***************************************************************************)
\* the grid cell a particle maps to
Cell(p) == (p.y \div spaceMultiplier) * gridWidth + (p.x \div spaceMultiplier)

DistinctCells(ps) ==
    \A i, j \in 1..Len(ps) : i # j => Cell(ps[i]) # Cell(ps[j])

CellsMarked(ps, im) ==
    \A i \in 1..Len(ps) : Cell(ps[i]) \in DOMAIN im /\ im[Cell(ps[i])] # 0

\* C1: a runCycle that starts with all particles in pairwise distinct,
\* non-zero grid cells ends with no two particles in the same grid cell.
C1_RunCycleKeepsCellsDistinct ==
    [][(cycles' # cycles /\ ~ub' /\ DistinctCells(particles)
            /\ CellsMarked(particles, img))
        => DistinctCells(particles')]_vars

\* the cells the particles of ps are stored in, and the non-zero cells
CellsOf(ps) == {Cell(ps[i]) : i \in 1..Len(ps)}

MarkedCells(im) == {c \in DOMAIN im : im[c] # 0}

\* C28: a runCycle that starts with the particles in pairwise distinct
\* cells, which are the non-zero cells of the grid, ends with the non-zero
\* cells of the grid being the cells of the stored positions, on every grid
\* size.
C28_GridFollowsParticles ==
    [][(cycles' # cycles /\ ~ub' /\ DistinctCells(particles)
            /\ MarkedCells(img) = CellsOf(particles))
        => MarkedCells(img') = CellsOf(particles')]_vars

\* C2: in every state the public operations reach, at most one particle
\* maps to any grid cell.
C2_OneParticlePerCell == ~ub => DistinctCells(particles)

C8_FailedPlacementChangesNothing ==
    [][call'.op = "addParticle"
        => /\ call'.attempts <= 2001
           /\ (~call'.found /\ ~ub') =>
                 /\ numParticles' = numParticles
                 /\ particles' = particles
                 /\ img' = img]_vars

\* a placement has given up on a grid with every cell occupied
C8_Witness ==
    /\ call.op = "addParticle"
    /\ ~call.found
    /\ call.attempts = maxAttempts
    /\ ~ub
    /\ \A c \in DOMAIN img : img[c] # 0

\* C34: clearParticles sets the particle count to 0 and leaves the
\* capacity, the occupancy grid and the palette as they were; the cells of
\* the removed particles stay non-zero, and a placement that finds only
\* such cells adds nothing.
C34_ClearOnlyResetsCount ==
    /\ [][call'.op = "clearParticles"
            => /\ numParticles' = 0
               /\ maxParticles' = maxParticles
               /\ img' = img
               /\ palette' = palette
               /\ coloursDefined' = coloursDefined
               /\ UNCHANGED <<rvars, cfgvars, accvars, ub>>]_vars
    /\ [][(/\ call.op = "clearParticles"
            /\ call'.op = "addParticle"
            /\ \A c \in DOMAIN img : img[c] # 0)
            => /\ ~call'.found
               /\ numParticles' = 0
               /\ img' = img]_vars

\* clearParticles has emptied a store of two particles whose cells are
\* still marked
C34_Witness ==
    /\ call.op = "clearParticles"
    /\ ~ub
    /\ numParticles = 0
    /\ maxParticles > 0
    /\ coloursDefined = 1
    /\ \A c \in DOMAIN img : img[c] # 0

\* C35: after any sequence of addParticle, deleteParticle with any index,
\* clearParticles, imgToParticles and runCycle calls the particle count is
\* at least 0 and at most the capacity of the store.
C35_CountWithinCapacity ==
    ~ub => (0 <= numParticles /\ numParticles <= maxParticles)

(***************************************************************************)
(* The store on a 1x1 grid: it starts with one slot, so that the second    *)
(* particle added finds it full.                                           *)
(***************************************************************************)
GrowConfig == [w |-> 1, h |-> 1, bounce |-> 0, shake |-> 0]

InitGrow ==
    /\ EngineInit(GrowConfig)
    /\ rngInclusive = FALSE

SpecGrow == InitGrow /\ [][Next]_vars

\* C12: addParticle(x, y, ...) called with getParticleCount() equal to the
\* capacity grows the capacity by exactly 20, stores the new particle at
\* index old-count and leaves every stored particle at its index with its
\* position and velocity; no operation decreases the capacity.
C12_GrowsByTwentyNeverShrinks ==
    /\ [][(call'.op = "addParticleAt" /\ ~ub' /\ numParticles = maxParticles)
            => /\ maxParticles' = maxParticles + 20
               /\ numParticles' = numParticles + 1
               /\ GetParticle(particles', numParticles).x = call'.x
               /\ GetParticle(particles', numParticles).y = call'.y
               /\ \A i \in 1..numParticles : particles'[i] = particles[i]]_vars
    /\ [][maxParticles' >= maxParticles]_vars

\* addParticle(x, y, ...) has grown the full one-slot store and stored a
\* second particle
C12_Witness ==
    /\ call.op = "addParticleAt"
    /\ ~ub
    /\ numParticles = 2
    /\ Len(particles) = 2
    /\ maxParticles = InitialMaxParticles(gridWidth, gridHeight) + 20

(***************************************************************************)
(* Every operation of the engine, on the 1x1 grid.                         *)
(***************************************************************************)
SetGravity2 == SetAccelerationIn(CountPairs)

SetGravity3 == SetAcceleration3In(CountTriples)

NextCount ==
    \/ Next
    \/ GetParticleCall
    \/ SetGravity2
    \/ SetGravity3

SpecCount == InitGrow /\ [][NextCount]_vars

\* the pixels imgToParticles turns into particles
NonZeroPixels(im) == Cardinality({c \in DOMAIN im : im[c] % 256 # 0})

\* C15: getParticleCount() is the number of successful addParticle calls
\* minus the number of deleteParticle calls with an index below the count,
\* since construction or the last clearParticles: every successful
\* addParticle adds one (imgToParticles calls it once per non-zero pixel),
\* every such deleteParticle takes one, clearParticles leaves 0, and
\* runCycle, setAcceleration and getParticle leave the count as it is.
C15_CountFollowsAddsAndDeletes ==
    [][(~ub /\ ~ub')
        => /\ call'.op = "addParticleAt" => numParticles' = numParticles + 1
           /\ call'.op = "addParticle" =>
                 numParticles' = numParticles + (IF call'.found THEN 1 ELSE 0)
           /\ call'.op = "imgToParticles" =>
                 numParticles' = numParticles + NonZeroPixels(img)
           /\ (call'.op = "deleteParticle" /\ call'.index < numParticles) =>
                 numParticles' = numParticles - 1
           /\ call'.op = "clearParticles" => numParticles' = 0
           /\ call'.op \in {"runCycle", "setAcceleration", "getParticle"} =>
                 numParticles' = numParticles]_vars

\* two particles were added and the second was deleted
C15_Witness ==
    /\ call.op = "deleteParticle"
    /\ call.index = 1
    /\ ~ub
    /\ numParticles = 1
    /\ Len(particles) = 1

(***************************************************************************)
(* The engine and its random source: a source that returns values of       *)
(* [a, b - 1], as the renderers of src/examples do, or of [a, b].          *)
(***************************************************************************)
AddOneAt == AddParticleAtIn(VelPairs, 1)

AddOneRandom == AddParticleRandomIn(1)

InitContract ==
    /\ \E c \in Configs : EngineInit(c)
    /\ rngInclusive \in BOOLEAN

NextContract ==
    \/ AddOneAt
    \/ AddOneRandom
    \/ RunCycle

SpecContract == InitContract /\ [][NextContract]_vars

\* every stored position lies in [0, W*spaceMultiplier) x [0, H*spaceMultiplier)
InBounds ==
    \A i \in 1..Len(particles) :
        /\ 0 <= particles[i].x /\ particles[i].x < gridWidth * spaceMultiplier
        /\ 0 <= particles[i].y /\ particles[i].y < gridHeight * spaceMultiplier

\* C4: after any sequence of addParticle (both overloads) and runCycle every
\* stored position lies inside the particle space, whichever value of its
\* inclusive range the random source returns.
C4_InBoundsInclusive == ~ub => InBounds

\* C4, amended: after any sequence of addParticle (both overloads) and
\* runCycle every stored position lies inside the particle space, when
\* random_int16(a, b) returns values of [a, b - 1].
C4_InBoundsHalfOpen == (~rngInclusive /\ ~ub) => InBounds

\* a runCycle with a half-open random source has ended with a particle held
\* at the far boundary of the X axis
C4_Witness ==
    /\ ~rngInclusive
    /\ ~ub
    /\ call.op = "runCycle"
    /\ \E i \in 1..Len(particles) : particles[i].x = maxX

(***************************************************************************)
(* imgToParticles on a painted image: the driver has defined the colours   *)
(* of ManyColours and painted the cells, and the store is empty.           *)
(***************************************************************************)
InitImport ==
    /\ rstate = "constructed"
    /\ gridWidth = ImportConfig.w
    /\ gridHeight = ImportConfig.h
    /\ cubeMode = FALSE
    /\ panelSize = 0
    /\ img \in [DOMAIN ZeroImg(ImportConfig.w, ImportConfig.h) -> ImportedIds]
    /\ palette = ManyColours
    /\ coloursDefined = Len(ManyColours)
    /\ particles = <<>>
    /\ numParticles = 0
    /\ maxParticles = InitialMaxParticles(ImportConfig.w, ImportConfig.h)
    /\ spaceMultiplier = SpaceMultiplierFor(ImportConfig.w, ImportConfig.h)
    /\ velCap = InitialVelCap(SpaceMultiplierFor(ImportConfig.w, ImportConfig.h))
    /\ accelX = 0
    /\ accelY = 0
    /\ shake = ImportConfig.shake
    /\ bounce = ImportConfig.bounce
    /\ cycles = 0
    /\ rngInclusive = FALSE
    /\ ub = FALSE
    /\ call = NoCall
    /\ life = NoLife

\* imgToParticles on an empty store, whatever the number of painted cells
ImportImage ==
    /\ Running
    /\ numParticles = 0
    /\ Len(particles) = 0
    /\ \E n \in 0..(gridWidth * gridHeight) :
          \E offs \in [1..n -> OffsetDraws \X OffsetDraws] :
              \E r \in {ImgToParticlesFrom(Store, 0, offs, 0)} :
                  /\ r.added = n
                  /\ Install(r.st)
    /\ call' = [op |-> "imgToParticles"]
    /\ UNCHANGED <<rvars, cfgvars, accvars, envvars>>

NextImport ==
    \/ ImportImage
    \/ ClearParticles

SpecImport == InitImport /\ [][NextImport]_vars

\* the particles of ps stored in cell c
ParticlesIn(ps, c) == {i \in 1..Len(ps) : CellIndex(ps[i].x, ps[i].y) = c}

\* C22: called with an empty store, imgToParticles creates exactly one
\* particle for every cell whose colour index is not 0, whatever the index
\* (256 and above included), and none for the empty cells: the particle
\* count is then the number of non-zero cells.
C22_OneParticlePerPaintedCell ==
    [][(/\ call'.op = "imgToParticles"
        /\ numParticles = 0
        /\ ~ub')
        => /\ numParticles' = Cardinality({c \in DOMAIN img : img[c] # 0})
           /\ \A c \in DOMAIN img :
                 Cardinality(ParticlesIn(particles', c))
                     = IF img[c] # 0 THEN 1 ELSE 0]_vars

(***************************************************************************)
(* addParticle(x, y, colour, vx, vy) with the colours of PaletteColours,   *)
(* black among them, on a palette that two colours fill.                   *)
(***************************************************************************)
AddPainted == AddParticleOfIn(PaletteColours, RandomAddVels, MaxP + 1)

InitPaint ==
    /\ EngineInit(PaletteConfig)
    /\ rngInclusive = FALSE

NextPaint == AddPainted

SpecPaint == InitPaint /\ [][NextPaint]_vars

\* C29: after addParticle(x, y, colour, vx, vy) with (x, y) inside the
\* grid, whatever the colour (black, or a colour asked for when the palette
\* is full) and the random values, the new particle maps to cell (x, y) and
\* that cell holds a colour index other than 0.
C29_AddedParticleOccupiesCell ==
    (call.op = "addParticleAt" /\ ~ub) =>
        /\ Cell(particles[Len(particles)]) = call.y * gridWidth + call.x
        /\ img[call.y * gridWidth + call.x] # 0

(***************************************************************************)
(* The jitter of runCycle, with either random source.                      *)
(***************************************************************************)
InitJitter ==
    /\ \E c \in JitterConfigs : EngineInit(c)
    /\ rngInclusive \in BOOLEAN

NextJitter ==
    \/ AddOneAt
    \/ SetGravity2
    \/ RunCycle

SpecJitter == InitJitter /\ [][NextJitter]_vars

\* one particle inside the particle space, too slow to move by a unit: the
\* runCycle that starts here changes its velocity by the increment alone
SlowParticle ==
    /\ numParticles = 1
    /\ Len(particles) = 1
    /\ InBounds
    /\ Abs(particles[1].vx) < 100
    /\ Abs(particles[1].vy) < 100

\* the velocity increments of the runCycle step lie within shake/2 of the
\* acceleration
IncrementWithinShake ==
    LET shakeFactor == shake \div 2
    IN  /\ particles'[1].vx - particles[1].vx
              \in (accelX - shakeFactor)..(accelX + shakeFactor)
        /\ particles'[1].vy - particles[1].vy
              \in (accelY - shakeFactor)..(accelY + shakeFactor)

AddParticleFast == AddParticleAtIn(CapVels, 1)

InitAccel ==
    /\ EngineInit(AccelConfig)
    /\ rngInclusive = FALSE

NextAccel ==
    \/ AddParticleFast
    \/ SetAcceleration2
    \/ SetAcceleration3
    \/ RunCycle

SpecAccel == InitAccel /\ [][NextAccel]_vars

(***************************************************************************)
(* Properties of the velocity pass, under SpecAccel.                       *)
(***************************************************************************)
\* vx*vx + vy*vy <= velCap*velCap, without leaving the 32-bit range
WithinCap(p) ==
    /\ Abs(p.vx) <= velCap
    /\ Abs(p.vy) <= velCap
    /\ p.vx * p.vx + p.vy * p.vy <= velCap * velCap

\* C3: at the end of every runCycle every particle's velocity satisfies
\* vx*vx + vy*vy <= velCap*velCap, for every 16-bit velocity, acceleration
\* and shake.
C3_VelocityWithinCap ==
    (call.op = "runCycle" /\ ~ub) =>
        \A i \in 1..Len(particles) : WithinCap(particles[i])

(***************************************************************************)
(* One particle and the walls.                                             *)
(***************************************************************************)
AddWallParticle == AddParticleAtIn(WallVels, 1)

RaiseCap ==
    /\ numParticles = 0
    /\ SetAcceleration3In(WallTriples)

InitWall ==
    /\ \E c \in WallConfigs : EngineInit(c)
    /\ rngInclusive = FALSE

NextWall ==
    \/ RaiseCap
    \/ AddWallParticle
    \/ RunCycle

SpecWall == InitWall /\ [][NextWall]_vars

\* the tentative coordinate of an axis
Tentative(pos, v) == pos + CDiv(v, 256)

\* v / (-loss) truncated toward zero, loss = 1 + (255 - bounce) * 5 / 255
BouncedOffWall(v) == CDiv(-(v * 255), 255 + (255 - bounce) * 5)

\* the coordinate and velocity the wall rule gives an axis
WallRule(pos, v, max) ==
    IF Tentative(pos, v) > max
    THEN [pos |-> max, v |-> IF bounce = 0 THEN 0 ELSE BouncedOffWall(v)]
    ELSE IF Tentative(pos, v) < 0
    THEN [pos |-> 0, v |-> IF bounce = 0 THEN 0 ELSE BouncedOffWall(v)]
    ELSE [pos |-> Tentative(pos, v), v |-> v]

\* one particle, no acceleration, no shake, a velocity within the cap: the
\* velocity pass of runCycle leaves the velocity as it is
Coasting ==
    /\ ~ub
    /\ numParticles = 1
    /\ Len(particles) = 1
    /\ accelX = 0
    /\ accelY = 0
    /\ shake = 0
    /\ WithinCap(particles[1])

\* C13: in runCycle a tentative coordinate outside [0, max] is clamped to
\* the boundary and that axis's velocity becomes 0 when bounce = 0 and
\* v / (-loss) truncated toward zero otherwise; the other axis keeps the
\* coordinate and velocity its own rule gives it.
C13_WallClampsOneAxis ==
    [][(Coasting /\ call'.op = "runCycle" /\ ~ub')
        => /\ particles'[1].x = WallRule(particles[1].x, particles[1].vx, maxX).pos
           /\ particles'[1].vx = WallRule(particles[1].x, particles[1].vx, maxX).v
           /\ particles'[1].y = WallRule(particles[1].y, particles[1].vy, maxY).pos
           /\ particles'[1].vy = WallRule(particles[1].y, particles[1].vy, maxY).v]_vars

\* the runCycle that starts in this state bounces the particle off a wall
\* of the X axis, of the Y axis
HitsWallX ==
    \/ Tentative(particles[1].x, particles[1].vx) > maxX
    \/ Tentative(particles[1].x, particles[1].vx) < 0

HitsWallY ==
    \/ Tentative(particles[1].y, particles[1].vy) > maxY
    \/ Tentative(particles[1].y, particles[1].vy) < 0

\* speed / loss truncated, loss = 1 + (255 - bounce) * 5 / 255
SpeedAfterBounce(v) == (Abs(v) * 255) \div (255 + (255 - bounce) * 5)

\* C16: loss = 1 + (255 - bounce) * 5 / 255 lies in [1, 6] and strictly
\* increases as bounce decreases from 255 to 0; a bounce off a boundary with
\* bounce > 0 leaves the axis the speed it had divided by loss (truncated),
\* which is never more than it had, and with bounce = 255 the velocity is
\* exactly negated.
C16_BounceDividesByLoss ==
    /\ [](\A b \in 0..255 :
            /\ 1 * 255 <= LossNum(b) /\ LossNum(b) <= 6 * 255
            /\ b < 255 => LossNum(b) > LossNum(b + 1))
    /\ [][(Coasting /\ bounce > 0 /\ call'.op = "runCycle" /\ ~ub' /\ HitsWallX)
            => /\ Abs(particles'[1].vx) = SpeedAfterBounce(particles[1].vx)
               /\ Abs(particles'[1].vx) <= Abs(particles[1].vx)
               /\ bounce = 255 => particles'[1].vx = -particles[1].vx]_vars
    /\ [][(Coasting /\ bounce > 0 /\ call'.op = "runCycle" /\ ~ub' /\ HitsWallY)
            => /\ Abs(particles'[1].vy) = SpeedAfterBounce(particles[1].vy)
               /\ Abs(particles'[1].vy) <= Abs(particles[1].vy)
               /\ bounce = 255 => particles'[1].vy = -particles[1].vy]_vars

(***************************************************************************)
(* The palette and the occupancy grid of the renderer.                     *)
(***************************************************************************)
enginevars == <<cfgvars, accvars, storevars, envvars, ub>>

\* getColourId(colour)
GetColourIdCall ==
    /\ Running
    /\ \E colour \in PaletteColours :
          LET g == GetColourId(palette, colour)
          IN  /\ palette' = g.palette
              /\ coloursDefined' = Len(g.palette)
              /\ call' = [op |-> "getColourId", colour |-> colour, id |-> g.id,
                          room |-> coloursDefined < maxColours - 1,
                          grew |-> Len(g.palette) # Len(palette)]
    /\ UNCHANGED <<rvars, img, enginevars>>

\* setPixelColour(x, y, colour) with a colour of colours
SetPixelColourIn(colours) ==
    /\ Running
    /\ \E x \in 0..(gridWidth - 1), y \in 0..(gridHeight - 1),
          colour \in colours :
          LET g == GetColourId(palette, colour)
          IN  /\ palette' = g.palette
              /\ coloursDefined' = Len(g.palette)
              /\ img' = [img EXCEPT ![y * gridWidth + x] = g.id]
    /\ call' = [op |-> "setPixelColour"]
    /\ UNCHANGED <<rvars, enginevars>>

SetPixelColour == SetPixelColourIn(PaletteColours)

\* clearImage
ClearImage ==
    /\ Running
    /\ img' = ZeroImg(gridWidth, gridHeight)
    /\ palette' = <<>>
    /\ coloursDefined' = 0
    /\ call' = [op |-> "clearImage"]
    /\ UNCHANGED <<rvars, enginevars>>

InitPalette ==
    /\ EngineInit(PaletteConfig)
    /\ rngInclusive = FALSE

NextPalette ==
    \/ GetColourIdCall
    \/ SetPixelColour
    \/ ClearImage

SpecPalette == InitPalette /\ [][NextPalette]_vars

\* C5: getColourId on a full palette (coloursDefined = maxColours - 1) with
\* a colour that is not black and has no exact match returns an index of
\* 1..coloursDefined whose entry has the least summed channel difference to
\* the colour, and leaves coloursDefined unchanged.
C5_FullPaletteReturnsNearest ==
    [][(/\ call'.op = "getColourId"
        /\ coloursDefined = maxColours - 1
        /\ call'.colour # Black
        /\ \A i \in 1..coloursDefined : palette[i] # call'.colour)
        => /\ coloursDefined' = coloursDefined
           /\ call'.id \in 1..coloursDefined
           /\ \A j \in 1..coloursDefined :
                 Score(palette[call'.id], call'.colour)
                     <= Score(palette[j], call'.colour)]_vars

\* C11: for every colour c passed to getColourId while the palette has free
\* capacity, getColour(getColourId(c)) = c, and a second getColourId(c)
\* with no clearImage in between returns the same index and leaves
\* coloursDefined unchanged: the next call does, no step but clearImage
\* changes an entry, and a call with a colour the palette holds returns
\* that entry's index.
C11_PaletteRoundTrip ==
    /\ [][(call'.op = "getColourId" /\ call'.room)
            => GetColour(palette', call'.id) = call'.colour]_vars
    /\ [][(/\ call.op = "getColourId"
            /\ call.room
            /\ call'.op = "getColourId"
            /\ call'.colour = call.colour)
            => (call'.id = call.id /\ coloursDefined' = coloursDefined)]_vars
    /\ [][call'.op # "clearImage"
            => /\ coloursDefined' >= coloursDefined
               /\ \A i \in 1..coloursDefined : palette'[i] = palette[i]]_vars
    /\ [][call'.op = "getColourId"
            => \A i \in 1..coloursDefined :
                  palette[i] = call'.colour
                      => (call'.id = i /\ coloursDefined' = coloursDefined)]_vars

\* getColourId has returned the index of a colour that an earlier call
\* added, while the palette still had room
C11_Witness ==
    /\ call.op = "getColourId"
    /\ call.room
    /\ ~call.grew
    /\ call.id >= 1
    /\ GetColour(palette, call.id) = call.colour

\* C14: after any sequence of getColourId, setPixelColour and clearImage
\* the palette entries 1..coloursDefined are pairwise distinct and none is
\* black, index 0 is black, and coloursDefined is at most maxColours - 1.
C14_PaletteEntriesDistinct ==
    /\ coloursDefined = Len(palette)
    /\ coloursDefined <= maxColours - 1
    /\ \A i, j \in 1..coloursDefined : i # j => palette[i] # palette[j]
    /\ \A i \in 1..coloursDefined : palette[i] # Black
    /\ GetColour(palette, 0) = Black

\* a colour the palette does not hold was asked for when the palette was
\* full
C14_Witness ==
    /\ call.op = "getColourId"
    /\ ~call.room
    /\ call.colour # Black
    /\ coloursDefined = maxColours - 1
    /\ \A i \in 1..coloursDefined : palette[i] # call.colour

(***************************************************************************)
(* One particle among occupied cells: the driver marks cells with          *)
(* setPixelColour, adds one particle and calls runCycle.                   *)
(***************************************************************************)
\* setPixelColour(x, y, red) marks a cell as occupied
PlaceObstacle == SetPixelColourIn({Red})

AddMover == AddParticleAtIn(CollideVels, 1)

InitCollide ==
    /\ \E c \in CollideConfigs : EngineInit(c)
    /\ rngInclusive = FALSE

NextCollide ==
    \/ PlaceObstacle
    \/ AddMover
    \/ RunCycle

SpecCollide == InitCollide /\ [][NextCollide]_vars

\* the particle, the column and row of its cell, and the column and row of
\* the cell of its tentative position
Mover == particles[1]

OldCell ==
    [col |-> Mover.x \div spaceMultiplier, row |-> Mover.y \div spaceMultiplier]

NewCell ==
    [col |-> WallRule(Mover.x, Mover.vx, maxX).pos \div spaceMultiplier,
     row |-> WallRule(Mover.y, Mover.vy, maxY).pos \div spaceMultiplier]

\* the cell at a column and row is occupied
Occupied(col, row) == img[row * gridWidth + col] # 0

\* the runCycle that starts in this state moves the one particle, away from
\* the walls, towards an occupied cell
Colliding ==
    /\ Coasting
    /\ ~HitsWallX
    /\ ~HitsWallY
    /\ (OldCell.col # NewCell.col \/ OldCell.row # NewCell.row)
    /\ Occupied(NewCell.col, NewCell.row)

\* both cell coordinates change
Diagonal == OldCell.col # NewCell.col /\ OldCell.row # NewCell.row

\* C17: in a diagonal collision where the cell reached along the faster
\* axis alone is free, the particle moves into that cell: the slower axis
\* keeps its position and has its velocity divided by -loss, the faster
\* axis keeps its velocity; with X the faster axis and with Y the faster
\* axis.
C17_DiagonalTakesFasterAxis ==
    /\ [][(/\ Colliding /\ Diagonal
            /\ call'.op = "runCycle" /\ ~ub'
            /\ Abs(Mover.vx) > Abs(Mover.vy)
            /\ ~Occupied(NewCell.col, OldCell.row))
            => /\ particles'[1].x = Tentative(Mover.x, Mover.vx)
               /\ particles'[1].y = Mover.y
               /\ particles'[1].vx = Mover.vx
               /\ particles'[1].vy = BouncedOffWall(Mover.vy)]_vars
    /\ [][(/\ Colliding /\ Diagonal
            /\ call'.op = "runCycle" /\ ~ub'
            /\ Abs(Mover.vy) > Abs(Mover.vx)
            /\ ~Occupied(OldCell.col, NewCell.row))
            => /\ particles'[1].y = Tentative(Mover.y, Mover.vy)
               /\ particles'[1].x = Mover.x
               /\ particles'[1].vy = Mover.vy
               /\ particles'[1].vx = BouncedOffWall(Mover.vx)]_vars

\* the cell of a stored position
CellOf(p) ==
    [col |-> p.x \div spaceMultiplier, row |-> p.y \div spaceMultiplier]

\* C18: when the occupied target cell is one cell away along one axis only,
\* the blocked axis keeps its coordinate and has its velocity divided by
\* -loss, the other axis keeps its tentative coordinate and its velocity,
\* the grid is unchanged and the stored position still maps to the old
\* cell, on every grid width.
C18_SingleAxisBlocked ==
    /\ [][(/\ Colliding
            /\ call'.op = "runCycle" /\ ~ub'
            /\ OldCell.row = NewCell.row)
            => /\ particles'[1].x = Mover.x
               /\ particles'[1].vx = BouncedOffWall(Mover.vx)
               /\ particles'[1].y = Tentative(Mover.y, Mover.vy)
               /\ particles'[1].vy = Mover.vy
               /\ img' = img
               /\ CellOf(particles'[1]) = OldCell]_vars
    /\ [][(/\ Colliding
            /\ call'.op = "runCycle" /\ ~ub'
            /\ OldCell.col = NewCell.col)
            => /\ particles'[1].y = Mover.y
               /\ particles'[1].vy = BouncedOffWall(Mover.vy)
               /\ particles'[1].x = Tentative(Mover.x, Mover.vx)
               /\ particles'[1].vx = Mover.vx
               /\ img' = img
               /\ CellOf(particles'[1]) = OldCell]_vars

\* C19: in a diagonal collision where the cell reached along the faster
\* axis alone is occupied, the particle takes the cell reached along the
\* slower axis alone when that is free, its faster axis keeping the old
\* coordinate and having its velocity divided by -loss; when that cell is
\* occupied too, the position and the grid are unchanged and both
\* velocities are divided by -loss.
C19_DiagonalFallsBack ==
    /\ [][(/\ Colliding /\ Diagonal
            /\ call'.op = "runCycle" /\ ~ub'
            /\ Abs(Mover.vx) > Abs(Mover.vy)
            /\ Occupied(NewCell.col, OldCell.row))
            => IF ~Occupied(OldCell.col, NewCell.row)
               THEN /\ CellOf(particles'[1]) =
                          [col |-> OldCell.col, row |-> NewCell.row]
                    /\ particles'[1].y = Tentative(Mover.y, Mover.vy)
                    /\ particles'[1].x = Mover.x
                    /\ particles'[1].vx = BouncedOffWall(Mover.vx)
               ELSE /\ particles'[1].x = Mover.x
                    /\ particles'[1].y = Mover.y
                    /\ img' = img
                    /\ particles'[1].vx = BouncedOffWall(Mover.vx)
                    /\ particles'[1].vy = BouncedOffWall(Mover.vy)]_vars
    /\ [][(/\ Colliding /\ Diagonal
            /\ call'.op = "runCycle" /\ ~ub'
            /\ Abs(Mover.vy) > Abs(Mover.vx)
            /\ Occupied(OldCell.col, NewCell.row))
            => IF ~Occupied(NewCell.col, OldCell.row)
               THEN /\ CellOf(particles'[1]) =
                          [col |-> NewCell.col, row |-> OldCell.row]
                    /\ particles'[1].x = Tentative(Mover.x, Mover.vx)
                    /\ particles'[1].y = Mover.y
                    /\ particles'[1].vy = BouncedOffWall(Mover.vy)
               ELSE /\ particles'[1].x = Mover.x
                    /\ particles'[1].y = Mover.y
                    /\ img' = img
                    /\ particles'[1].vx = BouncedOffWall(Mover.vx)
                    /\ particles'[1].vy = BouncedOffWall(Mover.vy)]_vars

\* C20: when runCycle moves the particle to another cell, its old cell
\* holds 0 afterwards, its new cell holds the colour index the old cell
\* held, and no other cell has changed; when the particle stays in its
\* cell the grid is not written.
C20_GridSwapFollowsParticle ==
    [][(/\ numParticles = 1
        /\ call'.op = "runCycle" /\ ~ub')
        => LET oldidx == CellIndex(Mover.x, Mover.y)
               newidx == CellIndex(particles'[1].x, particles'[1].y)
           IN  IF oldidx # newidx
               THEN /\ img'[oldidx] = 0
                    /\ img'[newidx] = img[oldidx]
                    /\ \A c \in DOMAIN img \ {oldidx, newidx} :
                          img'[c] = img[c]
               ELSE img' = img]_vars

(***************************************************************************)
(* Two particles in a row of three cells.                                  *)
(***************************************************************************)
AddRunner == AddParticleAtIn(QueueVels, 2)

SetPush == SetAccelerationIn(QueuePairs)

InitQueue ==
    /\ EngineInit(QueueConfig)
    /\ rngInclusive = FALSE

NextQueue ==
    \/ AddRunner
    \/ SetPush
    \/ RunCycle

SpecQueue == InitQueue /\ [][NextQueue]_vars

\* the velocity of particle p after the velocity pass, below the cap and
\* without jitter
Sped(p) == [p EXCEPT !.vx = p.vx + accelX, !.vy = p.vy + accelY]

\* the tentative position of particle p lies inside the particle space
Inside(p) ==
    /\ Tentative(p.x, Sped(p).vx) \in 0..maxX
    /\ Tentative(p.y, Sped(p).vy) \in 0..maxY

\* the cell of the tentative position of particle p
TentativeCell(p) ==
    Cell([x |-> Tentative(p.x, Sped(p).vx), y |-> Tentative(p.y, Sped(p).vy)])

\* two particles in distinct marked cells, both heading inside the particle
\* space, and a runCycle step without undefined behaviour
QueueStep ==
    /\ numParticles = 2
    /\ Len(particles) = 2
    /\ DistinctCells(particles)
    /\ CellsMarked(particles, img)
    /\ Inside(particles[1])
    /\ Inside(particles[2])
    /\ call'.op = "runCycle"
    /\ ~ub'

\* C30: in one runCycle the positions move by the velocities the cycle has
\* updated, in ascending particle index against the grid the lower indices
\* have left: the second particle enters the cell the first has vacated in
\* the same cycle, and the first is blocked by the cell the second vacates
\* later in the cycle.
C30_AscendingOrderAgainstGrid ==
    /\ [][(/\ QueueStep
            /\ TentativeCell(particles[2]) = Cell(particles[1])
            /\ TentativeCell(particles[1]) # Cell(particles[1])
            /\ img[TentativeCell(particles[1])] = 0)
            => /\ particles'[1].x = Tentative(particles[1].x, Sped(particles[1]).vx)
               /\ particles'[1].vx = Sped(particles[1]).vx
               /\ particles'[2].x = Tentative(particles[2].x, Sped(particles[2]).vx)
               /\ particles'[2].vx = Sped(particles[2]).vx
               /\ Cell(particles'[2]) = Cell(particles[1])
               /\ img'[Cell(particles[2])] = 0]_vars
    /\ [][(/\ QueueStep
            /\ TentativeCell(particles[1]) = Cell(particles[2])
            /\ TentativeCell(particles[2]) # Cell(particles[2])
            /\ img[TentativeCell(particles[2])] = 0)
            => /\ particles'[1].x = particles[1].x
               /\ particles'[1].vx = BouncedOffWall(Sped(particles[1]).vx)
               /\ particles'[2].x = Tentative(particles[2].x, Sped(particles[2]).vx)
               /\ img'[Cell(particles[2])] = 0
               /\ img'[Cell(particles[1])] # 0]_vars

\* a runCycle under acceleration has moved the first particle from cell 1
\* to cell 2 and the second, behind it, from cell 0 into cell 1
C30_Witness ==
    /\ call.op = "runCycle"
    /\ ~ub
    /\ cycles = 1
    /\ accelX = 40
    /\ Len(particles) = 2
    /\ particles[1] = [x |-> 512, y |-> 0, vx |-> 280, vy |-> 0]
    /\ particles[2] = [x |-> 256, y |-> 0, vx |-> 280, vy |-> 0]
    /\ img[0] = 0

(***************************************************************************)
(* Particles on a painted grid: the driver paints cells with               *)
(* setPixelColour, then adds particles, black ones included, and calls     *)
(* runCycle.                                                               *)
(***************************************************************************)
PaintCell ==
    /\ numParticles = 0
    /\ SetPixelColourIn({Red})

AddAny == AddParticleOfIn({Black, Green}, GridVels, 2)

InitGrid ==
    /\ EngineInit(GridConfig)
    /\ rngInclusive = FALSE

NextGrid ==
    \/ PaintCell
    \/ AddAny
    \/ RunCycle

SpecGrid == InitGrid /\ [][NextGrid]_vars

\* the number of cells of the image im that hold the colour index v
CellsHolding(im, v) == Cardinality({k \in DOMAIN im : im[k] = v})

\* C31: runCycle leaves the number of grid cells holding each colour index
\* as it was, and so the number of non-zero cells.
C31_GridValuesKept ==
    [][(call'.op = "runCycle" /\ ~ub')
        => \A v \in 0..maxColours : CellsHolding(img', v) = CellsHolding(img, v)]_vars

\* a runCycle has moved the colour index of a particle from row 0 to row 1
\* of a grid that holds two colour indices, while the cell of the other
\* particle holds 0
C31_Witness ==
    /\ call.op = "runCycle"
    /\ ~ub
    /\ cycles = 1
    /\ numParticles = 2
    /\ CellsHolding(img, 1) = 1
    /\ CellsHolding(img, 2) = 1
    /\ \E i, j \in 1..2 :
          /\ img[Cell(particles[i])] = 2
          /\ particles[i].y = spaceMultiplier
          /\ particles[i].vy = 400
          /\ img[Cell(particles[j])] = 0

(***************************************************************************)
(* The particle space of large grids: one particle in a corner cell.       *)
(***************************************************************************)
\* addParticle(x, y, colour, vx, vy) on a cell in a corner of the grid
AddAtEdge ==
    /\ Running
    /\ numParticles = 0
    /\ \E x \in {0, gridWidth - 1}, y \in {0, gridHeight - 1},
          colour \in ParticleColours, v \in SpaceVels,
          dx \in OffsetDraws, dy \in OffsetDraws :
          /\ Install(AddAt(Store, x, y, colour, v[1], v[2], dx, dy))
          /\ call' = [op |-> "addParticleAt", x |-> x, y |-> y]
    /\ UNCHANGED <<rvars, cfgvars, accvars, envvars>>

LargestCap ==
    /\ numParticles = 0
    /\ SetAcceleration3In(SpaceTriples)

InitSpace ==
    /\ \E c \in SpaceConfigs : EngineInit(c)
    /\ rngInclusive = FALSE

NextSpace ==
    \/ AddAtEdge
    \/ LargestCap
    \/ RunCycle

SpecSpace == InitSpace /\ [][NextSpace]_vars

\* newx or newy of runCycle before the conversion to uint16_t
Unconverted(pos, v) == pos + over + CDiv(v, velDiv)

\* C36: spaceMultiplier is at least 1 for every grid whose larger
\* dimension is between 1 and 5900, and the values position +
\* 10 * spaceMultiplier + velocity / 256 that the next runCycle computes for
\* the stored particles lie in 0..65535.
C36_ParticleSpaceFitsUint16 ==
    ~ub =>
        /\ \A d \in 1..5900 : SpaceMultiplierFor(d, 1) >= 1
        /\ \A i \in 1..Len(particles), ubm \in UBModes,
              jx \in JitterDraws, jy \in JitterDraws :
              \E v \in {VelocityPass(particles[i], jx, jy, ubm)} :
                  /\ Unconverted(particles[i].x, v.vx) \in 0..65535
                  /\ Unconverted(particles[i].y, v.vy) \in 0..65535

(***************************************************************************)
(* Construction of the renderer.  Before the constructor runs gridWidth,   *)
(* gridHeight and cubeMode hold its arguments.                             *)
(***************************************************************************)
Construct ==
    /\ rstate = "args"
    /\ IF cubeMode /\ ~CubeAspectOk(gridWidth, gridHeight)
       THEN /\ rstate' = "threw"
            /\ UNCHANGED <<panelSize, pixvars>>
       ELSE /\ rstate' = "constructed"
            /\ panelSize' = IF cubeMode THEN CubePanelSize(gridHeight)
                            ELSE panelSize
            /\ img' = ZeroImg(gridWidth, gridHeight)
            /\ palette' = <<>>
            /\ coloursDefined' = 0
    /\ call' = [op |-> "construct"]
    /\ UNCHANGED <<gridWidth, gridHeight, cubeMode, enginevars>>

InitCtor ==
    /\ rstate = "args"
    /\ gridWidth \in 0..MaxCtorDim
    /\ gridHeight \in 0..MaxCtorDim
    /\ cubeMode \in BOOLEAN
    /\ panelSize = 0
    /\ img = <<>>
    /\ palette = <<>>
    /\ coloursDefined = 0
    /\ particles = <<>>
    /\ numParticles = 0
    /\ maxParticles = 0
    /\ spaceMultiplier = 0
    /\ velCap = 0
    /\ accelX = 0
    /\ accelY = 0
    /\ shake = 0
    /\ bounce = 0
    /\ cycles = 0
    /\ rngInclusive = FALSE
    /\ ub = FALSE
    /\ call = NoCall
    /\ life = NoLife

NextCtor == Construct

SpecCtor == InitCtor /\ [][NextCtor]_vars

\* C9: construction in cube mode succeeds exactly when width = 3*p and
\* height = 2*p for some p, which is then the stored panelSize; for every
\* other width and height it fails with invalid_argument.
C9_CubeConstructsIffThreeByTwo ==
    (cubeMode /\ rstate # "args") =>
        /\ rstate = "constructed" <=>
              \E p \in 0..gridHeight : gridWidth = 3 * p /\ gridHeight = 2 * p
        /\ rstate = "constructed" =>
              gridWidth = 3 * panelSize /\ gridHeight = 2 * panelSize

(***************************************************************************)
(* newPositionX and newPositionY.                                          *)
(***************************************************************************)
NewPositionX ==
    /\ Running
    /\ \E x \in Positions(gridWidth), increment \in IncrementsFor(gridWidth),
          wrap \in BOOLEAN :
          call' = [op |-> "newPositionX", position |-> x,
                   increment |-> increment, wrap |-> wrap,
                   result |-> newPosition(x, ToUint16(increment), gridWidth, wrap)]
    /\ UNCHANGED <<rvars, pixvars, enginevars>>

NewPositionY ==
    /\ Running
    /\ \E y \in Positions(gridHeight), increment \in IncrementsFor(gridHeight),
          wrap \in BOOLEAN :
          call' = [op |-> "newPositionY", position |-> y,
                   increment |-> increment, wrap |-> wrap,
                   result |-> newPosition(y, ToUint16(increment), gridHeight, wrap)]
    /\ UNCHANGED <<rvars, pixvars, enginevars>>

InitNewPos ==
    /\ \E c \in PosConfigs : EngineInit(c)
    /\ rngInclusive = FALSE

NextNewPos ==
    \/ NewPositionX
    \/ NewPositionY

SpecNewPos == InitNewPos /\ [][NextNewPos]_vars

\* C10: for a position in [0, dimension) and a signed increment,
\* newPositionX and newPositionY return (position + increment) mod dimension
\* with wrap, and position + increment clamped to [0, dimension - 1] without.
C10_NewPositionWrapsOrClamps ==
    call.op \in {"newPositionX", "newPositionY"} =>
        LET dimension == IF call.op = "newPositionX" THEN gridWidth
                         ELSE gridHeight
            sum == call.position + call.increment
        IN  call.result =
                IF call.wrap THEN sum % dimension
                ELSE IF sum < 0 THEN 0
                ELSE IF sum > dimension - 1 THEN dimension - 1
                ELSE sum

(***************************************************************************)
(* updatePosition on a constructed renderer.  The pixel belongs to the     *)
(* caller: it passes any pixel of the grid, and then the pixel the call    *)
(* returned with its velocity reversed.                                    *)
(***************************************************************************)
RendererInit(c) ==
    /\ rstate = "constructed"
    /\ gridWidth = c.w
    /\ gridHeight = c.h
    /\ cubeMode = c.cube
    /\ panelSize = IF c.cube THEN CubePanelSize(c.h) ELSE 0
    /\ img = ZeroImg(c.w, c.h)
    /\ palette = <<>>
    /\ coloursDefined = 0
    /\ particles = <<>>
    /\ numParticles = 0
    /\ maxParticles = 0
    /\ spaceMultiplier = 0
    /\ velCap = 0
    /\ accelX = 0
    /\ accelY = 0
    /\ shake = 0
    /\ bounce = 0
    /\ cycles = 0
    /\ rngInclusive = FALSE
    /\ ub = FALSE
    /\ call = NoCall
    /\ life = NoLife

\* updatePosition reads gridWidth, gridHeight, cubeMode and panelSize and
\* writes nothing: one call on a fresh pixel per behaviour covers every call
UpdatePositionCall ==
    /\ Running
    /\ call = NoCall
    /\ \E x \in 0..(gridWidth - 1), y \in 0..(gridHeight - 1),
          fineX \in PixelFines, fineY \in PixelFines,
          vx \in PixelVels, vy \in PixelVels, wrap \in BOOLEAN :
          \E pixel \in {[x |-> x, y |-> y, fineX |-> fineX, fineY |-> fineY,
                         vx |-> vx, vy |-> vy]} :
              call' = [op |-> "updatePosition", pixel |-> pixel, wrap |-> wrap,
                       result |-> UpdatePosition(pixel, wrap)]
    /\ UNCHANGED <<rvars, pixvars, enginevars>>

\* the caller reverses the velocity of the pixel it got and calls again
UpdatePositionBack ==
    /\ Running
    /\ call.op = "updatePosition"
    /\ \E pixel \in {[call.result EXCEPT !.vx = ToInt8(-call.result.vx),
                                         !.vy = ToInt8(-call.result.vy)]} :
          call' = [op |-> "updatePositionBack", origin |-> call.pixel,
                   pixel |-> pixel, wrap |-> call.wrap,
                   result |-> UpdatePosition(pixel, call.wrap)]
    /\ UNCHANGED <<rvars, pixvars, enginevars>>

InitPixel == \E c \in PixelConfigs : RendererInit(c)

NextPixel ==
    \/ UpdatePositionCall
    \/ UpdatePositionBack

SpecPixel == InitPixel /\ [][NextPixel]_vars

\* C21: on a flat grid with wrap, for every pixel with |fineX| and |fineY|
\* below SUBPIXEL_RES and every velocity, also one of the opposite sign,
\* x * SUBPIXEL_RES + fineX advances by vx modulo gridWidth * SUBPIXEL_RES,
\* and y * SUBPIXEL_RES + fineY by vy modulo gridHeight * SUBPIXEL_RES.
C21_SubPixelDisplacementKept ==
    (call.op = "updatePosition" /\ ~cubeMode /\ call.wrap) =>
        /\ (call.result.x * SUBPIXEL_RES + call.result.fineX)
               % (gridWidth * SUBPIXEL_RES)
           = (call.pixel.x * SUBPIXEL_RES + call.pixel.fineX + call.pixel.vx)
               % (gridWidth * SUBPIXEL_RES)
        /\ (call.result.y * SUBPIXEL_RES + call.result.fineY)
               % (gridHeight * SUBPIXEL_RES)
           = (call.pixel.y * SUBPIXEL_RES + call.pixel.fineY + call.pixel.vy)
               % (gridHeight * SUBPIXEL_RES)

\* the last call was updatePosition on a cube with wrap enabled
CubeCall == call.op = "updatePosition" /\ cubeMode /\ call.wrap

\* the pixel of the last call after the flat move
Flat == FlatMove(call.pixel, call.wrap)

\* the flat X wrap: the pixel leaves panel column 2 to the right or panel
\* column 0 to the left
ExitsRight ==
    PanelOf(call.pixel.x) = 2 /\ call.pixel.vx > 0 /\ Flat.x < call.pixel.x

ExitsLeft ==
    PanelOf(call.pixel.x) = 0 /\ call.pixel.vx < 0 /\ Flat.x > call.pixel.x

\* the velocity of pixel r points away from the panel edge r has entered
\* through, steps cells behind it at most
PointsIntoPanel(r, steps) ==
    \/ r.vy > 0 /\ r.y % panelSize < steps
    \/ r.vy < 0 /\ panelSize - 1 - (r.y % panelSize) < steps

\* C24: on a cube with wrap, a pixel that leaves panel column 2 to the
\* right or panel column 0 to the left lands on the column-1 panel of the
\* other panel row, its velocity (vx, vy) becomes (vy, -vx), its sub-pixel
\* fraction (fineX, fineY) becomes (fineY, -fineX), and the new velocity
\* points into the destination panel.
C24_XWrapLandsOnColumnOne ==
    (CubeCall /\ (ExitsRight \/ ExitsLeft)) =>
        /\ PanelOf(call.result.x) = 1
        /\ PanelOf(call.result.y) # PanelOf(call.pixel.y)
        /\ call.result.vx = call.pixel.vy
        /\ call.result.vy = -call.pixel.vx
        /\ call.result.fineX = Flat.fineY
        /\ call.result.fineY = -Flat.fineX
        /\ PointsIntoPanel(call.result, Abs(Flat.x - call.pixel.x))

\* panels 1 to 3 are the lower panel row, 4 to 6 the upper one
PanelNumber(p) == PanelOf(p.y) * 3 + PanelOf(p.x) + 1

\* the pixel changes panel row and keeps its panel column
CrossesRowSeam ==
    /\ PanelOf(Flat.y) # PanelOf(call.pixel.y)
    /\ PanelOf(Flat.x) = PanelOf(call.pixel.x)

\* C25: on a cube with wrap, a vertical seam crossing that keeps the panel
\* column leads from panel 1, 2 or 3 up to 6 and down to 4, and from panel
\* 4, 5 or 6 up to 3 and down to 1; the velocity is unchanged for 1 up,
\* 4 up, 3 down and 6 down, negated on both axes for 1 down, 4 down, 3 up
\* and 6 up, and becomes (-vy, vx) from panels 2 and 5.
C25_RowSeamTable ==
    (CubeCall /\ CrossesRowSeam /\ call.pixel.vy # 0) =>
        LET from == PanelNumber(call.pixel)
            up == call.pixel.vy > 0
            v == call.pixel
            r == call.result
        IN  /\ PanelNumber(r) =
                  (IF from \in {1, 2, 3} THEN (IF up THEN 6 ELSE 4)
                   ELSE (IF up THEN 3 ELSE 1))
            /\ IF from \in {2, 5}
               THEN r.vx = -v.vy /\ r.vy = v.vx
               ELSE IF (from \in {1, 4}) = up
               THEN r.vx = v.vx /\ r.vy = v.vy
               ELSE r.vx = -v.vx /\ r.vy = -v.vy

\* a pixel at cell (x, y) with no sub-pixel fraction, moving one pixel per
\* step along one axis
Stepper(x, y, v) ==
    [x |-> x, y |-> y, fineX |-> 0, fineY |-> 0, vx |-> v[1], vy |-> v[2]]

OnePixelSteps ==
    {<<SUBPIXEL_RES, 0>>, <<-SUBPIXEL_RES, 0>>,
     <<0, SUBPIXEL_RES>>, <<0, -SUBPIXEL_RES>>}

\* pixel p leaves its panel in the flat move
LeavesPanel(p) == PanelNumber(FlatMove(p, TRUE)) # PanelNumber(p)

\* the panels reached from panel k by one-pixel steps across its edges
Neighbours(k) ==
    {PanelNumber(UpdatePosition(Stepper(x, y, v), TRUE)) :
        <<x, y, v>> \in
            {t \in (0..(gridWidth - 1)) \X (0..(gridHeight - 1)) \X OnePixelSteps :
                /\ PanelNumber(Stepper(t[1], t[2], t[3])) = k
                /\ LeavesPanel(Stepper(t[1], t[2], t[3]))}}

\* C26: on a cube with wrap, a pixel with no sub-pixel fraction that crosses
\* a seam at one pixel per step along one axis comes back to its cell when
\* the result's velocity is reversed and updatePosition is called again;
\* the panel adjacency is symmetric and every panel has exactly four
\* neighbouring panels, none of them itself.
C26_SeamCrossingReversible ==
    (/\ call.op = "updatePositionBack"
     /\ cubeMode
     /\ call.wrap
     /\ call.origin \in {Stepper(call.origin.x, call.origin.y, v) :
                            v \in OnePixelSteps}
     /\ LeavesPanel(call.origin))
    => /\ call.result.x = call.origin.x
       /\ call.result.y = call.origin.y
       /\ \A k \in 1..6 :
             /\ Cardinality(Neighbours(k)) = 4
             /\ k \notin Neighbours(k)
             /\ \A n \in Neighbours(k) : k \in Neighbours(n)

\* a pixel has left panel 1 through its left edge onto panel 5 and has come
\* back to its cell
C26_Witness ==
    /\ call.op = "updatePositionBack"
    /\ cubeMode
    /\ call.wrap
    /\ panelSize = 2
    /\ call.origin = Stepper(0, 1, <<-SUBPIXEL_RES, 0>>)
    /\ PanelNumber(call.pixel) = 5
    /\ call.result.x = 0
    /\ call.result.y = 1

\* C27: on a cube with wrap disabled, a move that stays on the pixel's
\* panel is applied as on a flat grid with wrap disabled: the position and
\* the sub-pixel fraction advance.
C27_NoWrapMovesOnPanel ==
    (/\ call.op = "updatePosition"
     /\ cubeMode
     /\ ~call.wrap
     /\ ~LeavesPanel(call.pixel))
    => call.result = FlatMove(call.pixel, FALSE)

\* the move changes both the panel row and the panel column
DiagonalPanelChange ==
    /\ PanelOf(call.pixel.x) # PanelOf(Flat.x)
    /\ PanelOf(call.pixel.y) # PanelOf(Flat.y)

\* C32: in cube mode with wrap, a move that changes both the panel row and
\* the panel column returns the pixel a flat grid of the same size returns:
\* position, sub-pixel fraction and velocity.
C32_DiagonalUntransformed ==
    (CubeCall /\ call.wrap /\ DiagonalPanelChange) =>
        /\ call.result = FlatMove(call.pixel, TRUE)
        /\ call.result.vx = call.pixel.vx
        /\ call.result.vy = call.pixel.vy

\* a pixel in the corner of panel 1 has moved diagonally over the left and
\* the bottom edge of the grid
C32_Witness ==
    /\ CubeCall
    /\ call.wrap
    /\ DiagonalPanelChange
    /\ panelSize = 2
    /\ call.pixel.x = 0
    /\ call.pixel.y = 0
    /\ call.result.x = gridWidth - 1
    /\ call.result.y = gridHeight - 1

\* C33: in cube mode every call of updatePosition on a pixel of the grid,
\* with wrap enabled or disabled, returns a pixel of the grid.
C33_CubeResultInsideGrid ==
    (call.op \in {"updatePosition", "updatePositionBack"} /\ cubeMode) =>
        /\ call.result.x \in 0..(gridWidth - 1)
        /\ call.result.y \in 0..(gridHeight - 1)

\* a pixel has crossed from panel 3 to panel 6, whose face is turned
C33_Witness ==
    /\ call.op = "updatePosition"
    /\ cubeMode
    /\ call.wrap
    /\ panelSize = 2
    /\ PanelNumber(call.pixel) = 3
    /\ PanelNumber(call.result) = 6
    /\ call.result.vx = -call.pixel.vx
    /\ call.pixel.vx # 0

(***************************************************************************)
(* One particle falling: the driver sets the acceleration, adds the        *)
(* particle and then calls runCycle once per frame, for ever.              *)
(***************************************************************************)
SetGravity ==
    /\ numParticles = 0
    /\ SetAccelerationIn(FallAccels)

AddFalling == AddParticleAtIn(FallVels, 1)

RunCycleForEver ==
    /\ RunCycleStep
    /\ UNCHANGED cycles

InitFall ==
    /\ EngineInit(FallConfig)
    /\ rngInclusive = FALSE

NextFall ==
    \/ SetGravity
    \/ AddFalling
    \/ RunCycleForEver

SpecFall == InitFall /\ [][NextFall]_vars /\ WF_vars(RunCycleForEver)

\* one particle, bounce 0, shake 0, acceleration (0, ay) with ay < 0; its
\* velocity started as (0, vy) with vy < 0
Falling ==
    /\ ~ub
    /\ numParticles = 1
    /\ bounce = 0
    /\ shake = 0
    /\ accelX = 0
    /\ accelY < 0

\* the runCycle that starts in this state clamps the particle at the lower
\* Y boundary
ClampsAtBottom ==
    particles[1].y + CDiv(VelocityPass(particles[1], 0, 0, "wrap").vy, velDiv) < 0

\* a runCycle has left the particle at rest on the lower Y boundary
AtRest ==
    /\ call.op = "runCycle"
    /\ particles[1].y = 0
    /\ particles[1].vy = 0

\* C6: a single particle with bounce 0, shake 0, acceleration (0, ay < 0) and
\* initial velocity (0, vy < 0) eventually reaches y = 0; the runCycle that
\* clamps it at the boundary leaves vy = 0; and every runCycle after that
\* one leaves y = 0.
C6_FallsAndRests ==
    /\ Falling ~> (Falling /\ particles[1].y = 0)
    /\ [][(Falling /\ call'.op = "runCycle" /\ ClampsAtBottom)
            => (particles'[1].y = 0 /\ particles'[1].vy = 0)]_vars
    /\ [][(Falling /\ AtRest /\ call'.op = "runCycle")
            => particles'[1].y = 0]_vars

(***************************************************************************)
(* GameOfLife (src/src/golife.cpp).  life holds the fields of the object   *)
(* under their names: cells maps <<x, y>> to the uint8_t of the cell       *)
(* (bit 0 alive, bit 1 birth/death, bits 2..4 the last three generations,  *)
(* bits 5..7 the colour index), population and unchangedPopulation are     *)
(* functions on 0..47 and 0..23, cellColours on 0..7.  delayms and the     *)
(* iteration statistics only feed messages and sleeps; iterations is kept  *)
(* because it is the field declared after unchangedPopulation.             *)
(***************************************************************************)
maxRepeatCycle == 24
popHistorySize == 48
CELL_ALIVE == 1
CELL_CHANGE == 2
CELL_PREV1 == 4
CELL_PREV2 == 8
CELL_PREV3 == 16

\* (v & bit) != 0, v |= bit, v &= ~bit for a single bit
HasBit(v, bit) == (v \div bit) % 2 = 1
SetBit(v, bit) == IF HasBit(v, bit) THEN v ELSE v + bit
ClearBit(v, bit) == IF HasBit(v, bit) THEN v - bit ELSE v
\* v = (v & ~bit) | (on ? bit : 0)
PutBit(v, bit, on) == IF on THEN SetBit(v, bit) ELSE ClearBit(v, bit)

\* the xi, yi of the neighbour loops, the cell itself included
Offsets == {-1, 0, 1} \X {-1, 0, 1}

\* the cell the loops of runCycle read for the offset o of (x, y)
Target(x, y, o) ==
    <<newPosition(x, ToUint16(o[1]), gridWidth, TRUE),
      newPosition(y, ToUint16(o[2]), gridHeight, TRUE)>>

\* the offsets of (x, y) whose cell is alive
LiveHits(c, x, y) == {o \in Offsets : HasBit(c[Target(x, y, o)], CELL_ALIVE)}

\* neighbours after the loops: it starts at -1
neighbours(c, x, y) == -1 + Cardinality(LiveHits(c, x, y))

\* scores[i] after the loops
scores(c, x, y, i) ==
    Cardinality({o \in LiveHits(c, x, y) : c[Target(x, y, o)] \div 32 = i})

\* newCol: the first index with the highest score, 0 when every score is 0
newCol(c, x, y) ==
    LET best == CHOOSE s \in 0..9 :
                    /\ \E i \in 0..7 : scores(c, x, y, i) = s
                    /\ \A i \in 0..7 : scores(c, x, y, i) <= s
    IN  IF best = 0 THEN 0
        ELSE CHOOSE i \in 0..7 :
                 /\ scores(c, x, y, i) = best
                 /\ \A j \in 0..(i - 1) : scores(c, x, y, j) < best

\* the cell (x, y) after the rule pass of runCycle.  The pass changes bit 1
\* and the colour bits of dead cells only and reads bit 0 and the
\* colour bits of live cells only, so every cell is judged on the grid as
\* it was before the pass.
RuleCell(c, x, y) ==
    LET v == ClearBit(c[<<x, y>>], CELL_CHANGE)
        n == neighbours(c, x, y)
    IN  IF HasBit(v, CELL_ALIVE) /\ n < 2 THEN SetBit(v, CELL_CHANGE)
        ELSE IF ~HasBit(v, CELL_ALIVE) /\ n = 2
        THEN ToUint8((SetBit(v, CELL_CHANGE) % 32) + newCol(c, x, y) * 32)
        ELSE IF HasBit(v, CELL_ALIVE) /\ n > 3 THEN SetBit(v, CELL_CHANGE)
        ELSE v

RulePass(c) == [p \in DOMAIN c |-> RuleCell(c, p[1], p[2])]

\* a cell applyChanges creates, a cell it kills
IsBirth(v) == ~HasBit(v, CELL_ALIVE) /\ HasBit(v, CELL_CHANGE)
IsDeath(v) == HasBit(v, CELL_ALIVE) /\ HasBit(v, CELL_CHANGE)

\* one cell of applyChanges: the history bits, then the birth or the death
ApplyCell(v) ==
    LET h3 == PutBit(v, CELL_PREV3, HasBit(v, CELL_PREV2))
        h2 == PutBit(h3, CELL_PREV2, HasBit(h3, CELL_PREV1))
        h1 == PutBit(h2, CELL_PREV1, HasBit(h2, CELL_ALIVE))
    IN  IF IsBirth(h1) THEN SetBit(h1, CELL_ALIVE)
        ELSE IF IsDeath(h1) THEN ClearBit(h1, CELL_ALIVE)
        ELSE h1

\* the cells of the grid in the order of the y and x loops
Scan ==
    [k \in 1..(gridWidth * gridHeight) |->
        <<(k - 1) % gridWidth, (k - 1) \div gridWidth>>]

\* setPixelColour for each entry of cmds from the i-th on, an entry being
\* the cell and the colour
RECURSIVE PaintFrom(_, _, _, _)
PaintFrom(cmds, i, im, pal) ==
    IF i > Len(cmds) THEN [img |-> im, palette |-> pal]
    ELSE With(GetColourId(pal, cmds[i].colour), LAMBDA g :
             PaintFrom(cmds, i + 1,
                       [im EXCEPT ![cmds[i].p[2] * gridWidth + cmds[i].p[1]] = g.id],
                       g.palette))

PaintAll(paints, im, pal) == With(paints, LAMBDA cmds : PaintFrom(cmds, 1, im, pal))

\* the setPixelColour calls of applyChanges on the cells c of before it
ApplyPaints(c, cols) ==
    LET changed == SelectSeq(Scan, LAMBDA p : HasBit(c[p], CELL_CHANGE))
    IN  [k \in 1..Len(changed) |->
            [p |-> changed[k],
             colour |-> IF IsBirth(c[changed[k]])
                        THEN cols[c[changed[k]] \div 32] ELSE Black]]

\* popChk and prevPopChk of the gap loops, both int8_t
PopChk(cursor, gap, i, j) ==
    LET chk == ToInt8(cursor - 1 - (gap * i) - j)
    IN  IF chk < 0 THEN ToInt8(chk + popHistorySize) ELSE chk

PrevPopChk(chk, gap, i) ==
    LET prev == ToInt8(chk + (gap * i))
    IN  IF prev > popHistorySize - 1 THEN ToInt8(prev - popHistorySize) ELSE prev

\* gapCheck when the i and j loops of one gap end: they stop at the first
\* pair of entries that differ or is zero
GapCheck(pop, cursor, gap) ==
    \A i \in 1..((popHistorySize \div gap) - 1), j \in 0..(gap - 1) :
        LET chk == PopChk(cursor, gap, i, j)
        IN  /\ pop[chk] > 0
            /\ pop[chk] = pop[PrevPopChk(chk, gap, i)]

\* gap when the gap loop ends: the first gap whose check holds, the loop's
\* bound when none does
GapAtExit(pop, cursor, lastGap) ==
    IF \E gap \in 4..lastGap : GapCheck(pop, cursor, gap)
    THEN CHOOSE gap \in 4..lastGap :
             /\ GapCheck(pop, cursor, gap)
             /\ \A g \in 4..(gap - 1) : ~GapCheck(pop, cursor, g)
    ELSE lastGap + 1

\* patternAlt of case 6 of initialiseGrid, row by row, X as 1
Pattern6 ==
    <<<<0, 0, 0, 0, 1, 1, 1, 0, 0, 0, 0, 0, 0, 0, 0, 0>>,
      <<0, 0, 0, 0, 0, 0, 1, 0, 0, 0, 0, 0, 0, 0, 0, 0>>,
      <<0, 0, 0, 0, 0, 1, 0, 0, 0, 0, 0, 0, 0, 0, 0, 0>>,
      <<0, 0, 0, 0, 0, 0, 0, 0, 0, 0, 0, 0, 0, 0, 0, 0>>,
      <<0, 0, 0, 0, 0, 0, 0, 1, 1, 0, 0, 0, 0, 0, 0, 1>>,
      <<0, 0, 0, 0, 0, 0, 1, 0, 0, 1, 0, 0, 0, 1, 0, 1>>,
      <<0, 0, 0, 0, 0, 1, 0, 0, 0, 0, 1, 0, 0, 0, 1, 1>>,
      <<0, 0, 0, 0, 1, 0, 0, 0, 0, 0, 0, 1, 0, 0, 0, 0>>,
      <<0, 0, 0, 0, 1, 0, 0, 0, 0, 0, 0, 1, 0, 0, 0, 0>>,
      <<1, 1, 0, 0, 0, 1, 0, 0, 0, 0, 1, 0, 0, 0, 0, 0>>,
      <<1, 0, 1, 0, 0, 0, 1, 0, 0, 1, 0, 0, 0, 0, 0, 0>>,
      <<1, 0, 0, 0, 0, 0, 0, 1, 1, 0, 0, 0, 0, 0, 0, 0>>,
      <<0, 0, 0, 0, 0, 0, 0, 0, 0, 0, 0, 0, 0, 0, 0, 0>>,
      <<0, 0, 0, 0, 0, 0, 0, 0, 0, 0, 1, 0, 0, 0, 0, 0>>,
      <<0, 0, 0, 0, 0, 0, 0, 0, 0, 1, 0, 0, 0, 0, 0, 0>>,
      <<0, 0, 0, 0, 0, 0, 0, 0, 0, 1, 1, 1, 0, 0, 0, 0>>>>

\* the colours the model lets getRandomColour return: components below
\* three quarters of the brightness with one of them then set to 200
LifeRed == <<200, 0, 0>>
LifeBlue == <<0, 0, 200>>

\* the test of the loop that rejects colours close to red or green
Rejected(colour) ==
    \/ colour[1] - colour[2] > 80 /\ colour[1] - colour[3] > 80
    \/ colour[2] - colour[1] > 80 /\ colour[2] - colour[3] > 80

\* the cellColours the model draws
ColourPlans(fadeSteps) ==
    {cols \in {[i \in 0..7 |-> IF i % 2 = 0 THEN LifeRed ELSE LifeBlue]} :
        fadeSteps > 4 => \A i \in 0..7 : ~Rejected(cols[i])}

\* the colIdx the model draws for the live cells of a random start
ColourDraws ==
    {[p \in (0..(gridWidth - 1)) \X (0..(gridHeight - 1)) |-> 7],
     [p \in (0..(gridWidth - 1)) \X (0..(gridHeight - 1)) |->
         1 + ((p[1] + p[2]) % 2)]}

\* the fields initialiseGrid resets, whatever the pattern
ResetLife(l, cols) ==
    [l EXCEPT !.alive = 0, !.iterations = 0, !.fadeOn = FALSE,
              !.fadeStep = l.fadeSteps, !.unchangedCount = 0,
              !.unchangedPopulation = [x \in 0..(maxRepeatCycle - 1) |-> 0],
              !.repeat2Count = 0, !.repeat3Count = 0,
              !.population = [x \in 0..(popHistorySize - 1) |-> 0],
              !.cellColours = cols, !.startOver = FALSE]

\* initialiseGrid(0) when random_int16(0,100) is below 15 on the cells of
\* liveSet and random_int16(0,8) returns idx[p] on the cell p
RandomGrid(l, cols, liveSet, idx) ==
    LET paints == [k \in 1..Len(Scan) |->
                      [p |-> Scan[k],
                       colour |-> IF Scan[k] \in liveSet
                                  THEN cols[idx[Scan[k]]] ELSE Black]]
    IN  With(PaintAll(paints, ZeroImg(gridWidth, gridHeight), <<>>),
             LAMBDA shown :
                [life |-> [ResetLife(l, cols) EXCEPT
                              !.cells = [p \in DOMAIN l.cells |->
                                            IF p \in liveSet
                                            THEN ToUint8(idx[p] * 32) + CELL_ALIVE
                                            ELSE 0],
                              !.alive = ToUint16(Cardinality(liveSet))],
                 img |-> shown.img, palette |-> shown.palette])

\* the cells the repeat (px, py) of a pattern sets, in the order of its y
\* and x loops
RepeatHits(l, pattern, px, py) ==
    LET spacingX == ToUint16(gridWidth \div (l.patternRepeatX + 1))
        spacingY == ToUint16(gridHeight \div (l.patternRepeatY + 1))
        offsetX == ToUint16(spacingX * (px + 1))
        offsetY == ToUint16(spacingY * (py + 1))
        square == [k \in 1..256 |->
                      <<offsetX + ((k - 1) % 16), offsetY + ((k - 1) \div 16)>>]
    IN  SelectSeq(square, LAMBDA p :
            /\ p[1] < gridWidth
            /\ p[2] < gridHeight
            /\ pattern[(16 - 1 - p[2] + offsetY) + 1][(p[1] - offsetX) + 1] = 1)

\* the cells all repeats from the r-th on set, each with the colIdx of its
\* repeat: colIdx goes up by one per repeat and back to 0 after 7
RECURSIVE PatternHits(_, _, _)
PatternHits(l, pattern, r) ==
    IF r >= l.patternRepeatX * l.patternRepeatY THEN <<>>
    ELSE LET hits == RepeatHits(l, pattern, r % l.patternRepeatX,
                                r \div l.patternRepeatX)
         IN  [k \in 1..Len(hits) |-> [p |-> hits[k], colIdx |-> r % 8]]
                 \o PatternHits(l, pattern, r + 1)

\* alive after the pattern loops: one alive++ for every cell set
AliveAfterPattern(hits) == ToUint16(Len(hits))

\* the cells after the pattern loops: a cell set more than once keeps the
\* colIdx of the last repeat that set it
CellsAfterPattern(c, hits) ==
    LET last(p) == CHOOSE k \in 1..Len(hits) :
                       /\ hits[k].p = p
                       /\ \A m \in (k + 1)..Len(hits) : hits[m].p # p
    IN  [p \in DOMAIN c |->
            IF \E k \in 1..Len(hits) : hits[k].p = p
            THEN ToUint8(hits[last(p)].colIdx * 32) + CELL_ALIVE
            ELSE ClearBit(c[p], CELL_ALIVE)]

\* initialiseGrid(patternIdx) for a preset pattern
PatternGrid(l, cols, pattern) ==
    With(PatternHits(l, pattern, 0), LAMBDA hits :
        LET blacks == [k \in 1..Len(Scan) |-> [p |-> Scan[k], colour |-> Black]]
            paints == blacks \o [k \in 1..Len(hits) |->
                                    [p |-> hits[k].p,
                                     colour |-> cols[hits[k].colIdx]]]
        IN  With(PaintAll(paints, ZeroImg(gridWidth, gridHeight), <<>>),
                 LAMBDA shown :
                    [life |-> [ResetLife(l, cols) EXCEPT
                                  !.cells = CellsAfterPattern(l.cells, hits),
                                  !.alive = AliveAfterPattern(hits)],
                     img |-> shown.img, palette |-> shown.palette]))

\* the indices of unchangedPopulation runCycle reads
RunCycleReads == {0, 3} \cup 4..(maxRepeatCycle - 1)

\* maxRepeatsCount of runCycle
maxRepeatsCount(l) ==
    CHOOSE m \in {0} \cup {l.unchangedPopulation[i] : i \in 4..(maxRepeatCycle - 1)} :
        \A i \in 4..(maxRepeatCycle - 1) : l.unchangedPopulation[i] <= m

\* a condition that restarts on request only
StartsOverOnRequest(l) == l.startOver

\* the condition of runCycle on which it reinitialises the simulation
StartsOver(l) ==
    \/ l.startOver
    \/ l.alive = 0
    \/ l.unchangedCount > 5
    \/ l.repeat2Count > 6
    \/ l.repeat3Count > 35
    \/ l.unchangedPopulation[0] > l.panelSize * 10
    \/ l.unchangedPopulation[0] > l.panelSize * 4 /\ l.alive = 5
    \/ l.unchangedPopulation[3] > l.panelSize * 3
    \/ maxRepeatsCount(l) > 200

\* msgEnd of runCycle: the end condition it reports
MsgEnd(l) ==
    IF l.alive = 0 THEN "All died"
    ELSE IF l.unchangedCount > 5 THEN "Static pattern for 5 frames"
    ELSE IF l.repeat2Count > 6 THEN "Pattern repeated over 2 frames"
    ELSE IF l.repeat3Count > 35 THEN "Pattern repeated over 3 frames"
    ELSE "Population"

\* what the byte behind unchangedPopulation belongs to: padding in front of
\* iterations where uint32_t is aligned, the low byte of iterations where
\* it is not
TailBytes == {"padding", "low"}

\* the write of 0 to the byte behind unchangedPopulation
BehindArray(l, tail) ==
    IF tail = "low"
    THEN [l EXCEPT !.iterations = (l.iterations \div 256) * 256]
    ELSE l

\* ++unchangedPopulation[index] or unchangedPopulation[index] = 0 at the
\* end of applyChanges
CountGap(l, index, found, tail) ==
    IF index \in DOMAIN l.unchangedPopulation
    THEN [l EXCEPT !.unchangedPopulation[index] =
                       IF found THEN ToUint8(@ + 1) ELSE 0]
    ELSE BehindArray(l, tail)

\* the counters of applyChanges, given the cells it leaves, alive and
\* popCursor after its loops and the number of changes
Counted(l, after, alive, popCursor, changes) ==
    LET compare2 == \A p \in DOMAIN after :
                        HasBit(after[p], CELL_ALIVE) = HasBit(after[p], CELL_PREV2)
        compare3 == \A p \in DOMAIN after :
                        HasBit(after[p], CELL_ALIVE) = HasBit(after[p], CELL_PREV3)
        popChk == IF popCursor = 0 THEN popHistorySize - 1 ELSE popCursor - 1
    IN  [l EXCEPT
            !.cells = after, !.alive = alive, !.popCursor = popCursor,
            !.population[popCursor] = alive,
            !.unchangedCount = IF changes = 0 THEN ToUint8(@ + 1) ELSE 0,
            !.repeat2Count = IF compare2 THEN ToUint8(@ + 1) ELSE 0,
            !.repeat3Count = IF compare3 THEN ToUint8(@ + 1) ELSE 0,
            !.unchangedPopulation[0] =
                IF l.population[popChk] = alive THEN ToUint8(@ + 1) ELSE 0]

\* applyChanges on the record l: the record, the image and the palette it
\* leaves, and the index of unchangedPopulation its last statement uses
ApplyChanges(l, im, pal, tail) ==
    LET c == l.cells
        births == Cardinality({p \in DOMAIN c : IsBirth(c[p])})
        deaths == Cardinality({p \in DOMAIN c : IsDeath(c[p])})
        popCursor == IF ToUint8(l.popCursor + 1) > popHistorySize - 1 THEN 0
                     ELSE ToUint8(l.popCursor + 1)
    IN  With(Counted(l, [p \in DOMAIN c |-> ApplyCell(c[p])],
                     ToUint16(l.alive + births - deaths), popCursor,
                     ToUint8(births + deaths)),
             LAMBDA counted :
        With(GapAtExit(counted.population, popCursor, maxRepeatCycle),
             LAMBDA gap :
        With(PaintAll(ApplyPaints(c, l.cellColours), im, pal),
             LAMBDA shown :
                [life |-> CountGap(counted, gap - 1, gap <= maxRepeatCycle, tail),
                 img |-> shown.img, palette |-> shown.palette,
                 index |-> gap - 1])))

\* most runCycle calls of GameOfLife in one behaviour of SpecLife
MaxLifeCycles == 4

\* the values the model lets the cells hold after new uint8_t[]: the
\* constructor does not set them.  initialiseGrid(0) writes every cell, so
\* the value shows after a preset pattern only.
CellFills(startPattern) == IF startPattern = 0 THEN {0} ELSE {0, 255}

\* the grids and the constructor arguments of the simulations: a random
\* start without and with fading, and pattern 6 repeated across a grid
\* narrower than the pattern
LifeConfigs ==
    {[w |-> 4, h |-> 3, fadeSteps |-> 1, startPattern |-> 0,
      patternRepeatX |-> 1, patternRepeatY |-> 1],
     [w |-> 2, h |-> 2, fadeSteps |-> 2, startPattern |-> 0,
      patternRepeatX |-> 1, patternRepeatY |-> 1],
     [w |-> 12, h |-> 2, fadeSteps |-> 1, startPattern |-> 6,
      patternRepeatX |-> 6, patternRepeatY |-> 1]}

\* the object after GameOfLife(renderer, fadeSteps, delay, startPattern,
\* patternRepeatX, patternRepeatY) on a renderer of c.w by c.h
LifeInit(c) ==
    /\ rstate = "constructed"
    /\ gridWidth = c.w
    /\ gridHeight = c.h
    /\ cubeMode = FALSE
    /\ panelSize = 0
    /\ img = ZeroImg(c.w, c.h)
    /\ palette = <<>>
    /\ coloursDefined = 0
    /\ particles = <<>>
    /\ numParticles = 0
    /\ maxParticles = 0
    /\ spaceMultiplier = 1
    /\ velCap = 0
    /\ accelX = 0
    /\ accelY = 0
    /\ shake = 0
    /\ bounce = 0
    /\ cycles = 0
    /\ rngInclusive = FALSE
    /\ ub = FALSE
    /\ call = NoCall
    /\ \E fill \in CellFills(c.startPattern) :
          life = [cells |-> [p \in (0..(c.w - 1)) \X (0..(c.h - 1)) |-> fill],
                  cellColours |-> [i \in 0..7 |-> Black],
                  fadeSteps |-> c.fadeSteps,
                  fadeStep |-> c.fadeSteps,
                  startPattern |-> c.startPattern,
                  patternRepeatX |-> IF c.patternRepeatX < 1 THEN 1
                                     ELSE c.patternRepeatX,
                  patternRepeatY |-> IF c.patternRepeatY < 1 THEN 1
                                     ELSE c.patternRepeatY,
                  alive |-> 0,
                  population |-> [x \in 0..(popHistorySize - 1) |-> 0],
                  popCursor |-> popHistorySize - 1,
                  unchangedCount |-> 0,
                  repeat2Count |-> 0,
                  repeat3Count |-> 0,
                  unchangedPopulation |-> [x \in 0..(maxRepeatCycle - 1) |-> 0],
                  iterations |-> 0,
                  panelSize |-> IF c.w < c.h THEN c.w ELSE c.h,
                  startOver |-> TRUE,
                  fadeOn |-> FALSE]

Living == life # NoLife /\ Running

\* what one runCycle leaves, iterations++ included: a uint32_t that
\* initialiseGrid sets to 0, far from its width in every run modelled
Leave(r, branch, applied) ==
    /\ life' = [r.life EXCEPT !.iterations = @ + 1]
    /\ img' = r.img
    /\ palette' = r.palette
    /\ coloursDefined' = Len(r.palette)
    /\ call' = [op |-> "GameOfLife::runCycle", branch |-> branch,
                applied |-> applied, reads |-> RunCycleReads,
                index |-> IF applied THEN r.index ELSE -1,
                msgEnd |-> IF branch = "initialise" THEN MsgEnd(life) ELSE ""]

\* the branch of runCycle that calls initialiseGrid(startPattern)
Reinitialise ==
    /\ StartsOver(life)
    /\ \E cols \in ColourPlans(life.fadeSteps) :
          IF life.startPattern = 0
          THEN \E liveSet \in SUBSET DOMAIN life.cells, idx \in ColourDraws :
                  \E r \in {RandomGrid(life, cols, liveSet, idx)} :
                      Leave(r, "initialise", FALSE)
          ELSE \E r \in {PatternGrid(life, cols, Pattern6)} :
                  Leave(r, "initialise", FALSE)

\* the branch of runCycle that fades the changes in, and applies them at
\* the last step
Fade ==
    /\ ~StartsOver(life)
    /\ life.fadeOn
    /\ \E stepped \in {[life EXCEPT !.fadeStep = ToUint8(@ + 1)]} :
          IF stepped.fadeStep >= life.fadeSteps
          THEN \E tail \in TailBytes :
                  \E r \in {ApplyChanges([stepped EXCEPT !.fadeOn = FALSE],
                                         img, palette, tail)} :
                      Leave(r, "fade", TRUE)
          ELSE Leave([life |-> stepped, img |-> img, palette |-> palette],
                     "fade", FALSE)

\* the branch of runCycle that runs the rule pass, and applies the changes
\* at once when nothing fades
Generation ==
    /\ ~StartsOver(life)
    /\ ~life.fadeOn
    /\ \E ruled \in {[life EXCEPT !.cells = RulePass(@)]} :
          IF life.fadeSteps > 1
          THEN Leave([life |-> [ruled EXCEPT !.fadeStep = 0, !.fadeOn = TRUE],
                      img |-> img, palette |-> palette], "generation", FALSE)
          ELSE \E tail \in TailBytes :
                  \E r \in {ApplyChanges(ruled, img, palette, tail)} :
                      Leave(r, "generation", TRUE)

\* GameOfLife::runCycle
LifeRunCycleStep ==
    /\ Living
    /\ Reinitialise \/ Fade \/ Generation
    /\ UNCHANGED <<rvars, spaceMultiplier, shake, bounce, accvars, storevars,
                   rngInclusive, ub>>

\* one simulation: a behaviour of SpecLife ends after MaxLifeCycles calls
\* and where runCycle would initialise the grid a second time
LifeRunCycle ==
    /\ cycles < MaxLifeCycles
    /\ StartsOver(life) => cycles = 0
    /\ LifeRunCycleStep
    /\ cycles' = cycles + 1

InitLife == \E c \in LifeConfigs : LifeInit(c)

NextLife == LifeRunCycle

SpecLife == InitLife /\ [][NextLife]_vars

(***************************************************************************)
(* A simulation that is run for ever: runCycle is called again and again,  *)
(* as the loop of the examples does.                                       *)
(***************************************************************************)
LifeForEverConfigs ==
    {[w |-> 2, h |-> 1, fadeSteps |-> 1, startPattern |-> 0,
      patternRepeatX |-> 1, patternRepeatY |-> 1]}

InitLifeForEver == \E c \in LifeForEverConfigs : LifeInit(c)

LifeRunCycleForEver ==
    /\ LifeRunCycleStep
    /\ UNCHANGED cycles

NextLifeForEver == LifeRunCycleForEver

SpecLifeForEver ==
    InitLifeForEver /\ [][NextLifeForEver]_vars /\ WF_vars(LifeRunCycleForEver)

(***************************************************************************)
(* Conway's rules, stated on sets of cells without the loops of runCycle.  *)
(***************************************************************************)
LiveCells(c) == {p \in DOMAIN c : HasBit(c[p], CELL_ALIVE)}

\* the number of the 8 neighbours of p on the torus that are in live; a
\* cell that is a neighbour in several directions counts once for each
LiveAround(live, p) ==
    Cardinality({o \in Offsets \ {<<0, 0>>} :
                    <<(p[1] + o[1] + gridWidth) % gridWidth,
                      (p[2] + o[2] + gridHeight) % gridHeight>> \in live})

\* the live cells of the generation after live
ConwayNext(live) ==
    {p \in (0..(gridWidth - 1)) \X (0..(gridHeight - 1)) :
        IF p \in live THEN LiveAround(live, p) \in {2, 3}
        ELSE LiveAround(live, p) = 3}

\* a runCycle that ran applyChanges has replaced the live cells by their
\* next generation
ConwayGeneration ==
    [][(call'.op = "GameOfLife::runCycle" /\ call'.applied)
          => LiveCells(life'.cells) = ConwayNext(LiveCells(life.cells))]_vars

\* C37: a generation of GameOfLife (the rule pass of runCycle and
\* applyChanges) leaves the live cells Conway's rules give on the torus, and
\* alive is then the number of live cells
C37_GenerationIsConway ==
    [][(call'.op = "GameOfLife::runCycle" /\ call'.applied)
          => /\ LiveCells(life'.cells) = ConwayNext(LiveCells(life.cells))
             /\ life'.alive = Cardinality(LiveCells(life'.cells))]_vars

\* C39: the indices of unchangedPopulation that runCycle reads and the index
\* that the last statement of applyChanges reads and writes are inside the
\* array, whether or not a repeating population cycle was found
C39_IndexInsideArray ==
    call.op = "GameOfLife::runCycle" =>
        /\ call.reads \subseteq 0..(maxRepeatCycle - 1)
        /\ call.applied => call.index \in 0..(maxRepeatCycle - 1)

\* the last runCycle called initialiseGrid
Reinitialised == call.op = "GameOfLife::runCycle" /\ call.branch = "initialise"

\* the last runCycle ran applyChanges and left no cell alive by its count
DiedOut == call.op = "GameOfLife::runCycle" /\ call.applied /\ life.alive = 0

\* the last runCycle ran applyChanges and no cell was born or died
Static == call.op = "GameOfLife::runCycle" /\ call.applied /\ life.unchangedCount > 0

\* C38: a simulation that died out (alive = 0) or became static is always
\* eventually reinitialised: with alive = 0 the next runCycle calls
\* initialiseGrid; a generation without births and deaths adds one to
\* unchangedCount; with unchangedCount above 5 the next runCycle calls
\* initialiseGrid; and initialiseGrid resets the repeat counters
C38_DeadOrStaticRestarts ==
    /\ (DiedOut \/ Static) ~> Reinitialised
    /\ [][(life # NoLife /\ life.alive = 0 /\ call'.op = "GameOfLife::runCycle")
            => call'.branch = "initialise"]_vars
    /\ [][(call'.op = "GameOfLife::runCycle" /\ call'.applied
             /\ LiveCells(life'.cells) = LiveCells(life.cells))
            => life'.unchangedCount = life.unchangedCount + 1]_vars
    /\ [][(life # NoLife /\ life.unchangedCount > 5
             /\ call'.op = "GameOfLife::runCycle")
            => call'.branch = "initialise"]_vars
    /\ [][(call'.op = "GameOfLife::runCycle" /\ call'.branch = "initialise")
            => /\ life'.unchangedCount = 0
               /\ life'.repeat2Count = 0
               /\ life'.repeat3Count = 0
               /\ \A i \in 0..(maxRepeatCycle - 1) :
                      life'.unchangedPopulation[i] = 0]_vars

\* a simulation that died out after one generation, then one that stayed
\* static for six generations and was reinitialised for it
C38_Witness ==
    /\ Reinitialised
    /\ call.msgEnd = "Static pattern for 5 frames"
    /\ life.popCursor = 6

====
